---- MODULE Spec2Model ----
(***************************************************************************)
(* Daemon lifecycle manager of cocli (package server): DaemonManager over  *)
(* its four collaborators ConfigStore, ProcessManager, HealthChecker and   *)
(* CLIFinder.  The record file, the set of live processes and the set of   *)
(* reachable ports are the environment; Start is split at its health-wait  *)
(* loop, every other public operation is one step.                         *)
(***************************************************************************)
EXTENDS Integers, Sequences, FiniteSets, TLC

\* ---------------------------------------------------------------- bounds
MaxPid == 2
MaxTime == 1
MaxPings == 2
MaxLines == 3

\* ------------------------------------------------------------- constants
DefaultPort == 4321

ErrNil == "nil"
ErrConfigNotFound == "ConfigNotFound"
ErrDaemonAlreadyRunning == "AlreadyRunning"
ErrDaemonNotRunning == "NotRunning"
ErrCLINotFound == "CLINotFound"
ErrStartTimeout == "StartTimeout"
\* errors that match none of the sentinels under errors.Is
ErrDecode == "LoadErr"
ErrSave == "SaveErr"
ErrDelete == "DeleteErr"
ErrKill == "KillErr"
ErrSpawn == "SpawnErr"
ErrPing == "PingErr"

Pids == 1..MaxPid
\* the configured port and one other port a record may name
Ports == {DefaultPort, DefaultPort + 1}
Times == 0..MaxTime
Mgrs == {1, 2}

\* contents of the record file
Absent == [kind |-> "absent", pid |-> 0, port |-> 0, startedAt |-> 0]
Malformed == [kind |-> "malformed", pid |-> 0, port |-> 0, startedAt |-> 0]
DaemonConfig == [kind : {"record"}, pid : Pids, port : Ports, startedAt : Times]
IsRec(f) == f.kind = "record"
\* the content `{}`: valid JSON that names no field
EmptyObject == [kind |-> "record", pid |-> 0, port |-> 0, startedAt |-> 0]

\* A DaemonConfig value in memory.  mono: StartedAt carries a monotonic clock
\* reading, as every time.Now() does; it is not part of the instant.
Config(pid, prt, t, mono) ==
    [kind |-> "config", pid |-> pid, port |-> prt, startedAt |-> t, mono |-> mono]
NoConfig == [kind |-> "none", pid |-> 0, port |-> 0, startedAt |-> 0, mono |-> FALSE]
Configs == {Config(pid, prt, t, mono) : pid \in Pids, prt \in Ports, t \in Times, mono \in BOOLEAN}

\* json.MarshalIndent of a DaemonConfig: pid and port as numbers, StartedAt
\* as RFC 3339 text of the instant; the monotonic reading is not written.
Marshal(cfg) ==
    [kind |-> "record", pid |-> cfg.pid, port |-> cfg.port, startedAt |-> cfg.startedAt]

\* json.Unmarshal into a zero DaemonConfig: an error for content that is not
\* one JSON value of the right types; fields the content does not name stay
\* zero; the time parsed from text has no monotonic reading.
Unmarshal(doc) ==
    IF doc.kind = "malformed" THEN [err |-> ErrDecode, cfg |-> NoConfig]
    ELSE [err |-> ErrNil, cfg |-> Config(doc.pid, doc.port, doc.startedAt, FALSE)]

\* time.Time.Equal: the same instant
TimeEqual(c1, c2) == c1.startedAt = c2.startedAt

VARIABLES
    file,       \* the record file: Absent, Malformed or a DaemonConfig
    alive,      \* pids of the processes that exist
    reachable,  \* ports on which a TCP connection to localhost succeeds
    now,        \* the clock
    port,       \* port[m]: DaemonManager.port
    pc,         \* pc[m]: "idle", or "waiting" inside Start's waitForHealthy
    spawned,    \* spawned[m]: pid returned by this Start's StartProcess
    pings,      \* pings[m]: ticks taken by the current waitForHealthy
    calls,      \* calls[m]: collaborator calls made so far by the running Start
    lastEv,     \* the step just taken: operation, manager, returned values, calls made
    caller,     \* a direct user of the ConfigStore: the config it last saved, its last Load
    stream,     \* the standard output of a worker spawned with port detection, and its reader
    env,        \* what EnvCLIFinder reads: COPILOT_CLI_PATH, PATH, the files that exist; its last result
    client      \* what NewClientWithDaemonChecker meets (checker, daemon, SDK servers) and its last result

vars == <<file, alive, reachable, now, port, pc, spawned, pings, calls, lastEv, caller, stream, env, client>>

\* ------------------------------------------------------ collaborators
\* a collaborator call, its argument and what it returned
Call(fn, arg, res) == [fn |-> fn, arg |-> arg, res |-> res]

\* faulty variant: a decode error is swallowed and a zero config returned
Load_SwallowsDecodeError(f) ==
    IF f.kind = "absent" THEN [err |-> ErrConfigNotFound, cfg |-> NoConfig]
    ELSE LET u == Unmarshal(f) IN [err |-> ErrNil, cfg |-> u.cfg]

\* FileConfigStore.Load
Load(f) ==
    IF f.kind = "absent" THEN [err |-> ErrConfigNotFound, cfg |-> NoConfig]
    ELSE LET u == Unmarshal(f) IN
         IF u.err # ErrNil THEN [err |-> u.err, cfg |-> NoConfig]
         ELSE [err |-> ErrNil, cfg |-> u.cfg]

\* faulty variant: the file is opened for appending instead of truncated;
\* two JSON values in a row are not a JSON value
Save_Appends(f, cfg, sok) ==
    IF ~sok THEN [err |-> ErrSave, file |-> f]
    ELSE [err |-> ErrNil, file |-> IF f.kind = "absent" THEN Marshal(cfg) ELSE Malformed]

\* FileConfigStore.Save; sok: the directory and the file could be written
Save(f, cfg, sok) ==
    IF sok THEN [err |-> ErrNil, file |-> Marshal(cfg)]
    ELSE [err |-> ErrSave, file |-> f]

\* faulty variant: os.Remove's not-exist error is returned as it is
Delete_StrictRemove(f, dok) ==
    IF f.kind = "absent" THEN [err |-> ErrDelete, file |-> Absent]
    ELSE IF dok THEN [err |-> ErrNil, file |-> Absent]
    ELSE [err |-> ErrDelete, file |-> f]

\* FileConfigStore.Delete; dok: os.Remove of an existing file succeeded
Delete(f, dok) ==
    IF f.kind = "absent" THEN [err |-> ErrNil, file |-> Absent]
    ELSE IF dok THEN [err |-> ErrNil, file |-> Absent]
    ELSE [err |-> ErrDelete, file |-> f]

\* faulty variant: os.FindProcess always succeeds on Unix and signal 0 is never sent
ProcIsRunning_FindOnly(pid, al) == pid > 0

\* ProcessManager.IsRunning
ProcIsRunning(pid, al) == pid > 0 /\ pid \in al

\* faulty variant: a successful Kill ends every process
Kill_AllProcesses(pid, al, kok, exited) ==
    IF pid <= 0 THEN [err |-> ErrKill, alive |-> al]
    ELSE IF kok THEN [err |-> ErrNil, alive |-> {}]
    ELSE [err |-> ErrKill, alive |-> al]

\* ProcessManager.Kill.  kok: Kill returned nil.  exited: the process had
\* exited when Kill returned nil.  OSProcessManager.Kill waits with
\* process.Wait(), which blocks until exit only for a child of the calling
\* process; for any other process Wait fails at once and Kill returns nil
\* right after SIGTERM was sent, whether or not the process has exited.
Kill(pid, al, kok, exited) ==
    IF pid <= 0 THEN [err |-> ErrKill, alive |-> al]
    ELSE IF kok THEN [err |-> ErrNil, alive |-> IF exited THEN al \ {pid} ELSE al]
    ELSE [err |-> ErrKill, alive |-> al]

\* HealthChecker.Ping("localhost", p, timeout)
Ping(p, re) == IF p \in re THEN ErrNil ELSE ErrPing

Bool(b) == IF b THEN "true" ELSE "false"

\* ------------------------------------------------------------ events
\* What the previous step was: the operation that returned and its error.
Prior(op, err) == [op |-> op, err |-> err]

\* The event of a step; `after` tells which operation returned just before
\* this one was called ("env" when the environment moved in between), and
\* `prev` which invocation that was and the pid it returned.
Ev(op, m, err, running, pid, prt, startedAt, uptime, cs) ==
    [op |-> op, m |-> m, err |-> err, running |-> running, pid |-> pid,
     port |-> prt, startedAt |-> startedAt, uptime |-> uptime, calls |-> cs,
     after |-> Prior(lastEv.op, lastEv.err),
     prev |-> [m |-> lastEv.m, pid |-> lastEv.pid]]

NoEv ==
    [op |-> "none", m |-> 0, err |-> ErrNil, running |-> FALSE, pid |-> 0,
     port |-> 0, startedAt |-> 0, uptime |-> 0, calls |-> <<>>,
     after |-> Prior("none", ErrNil), prev |-> [m |-> 0, pid |-> 0]]
EnvEv == [NoEv EXCEPT !.op = "env"]

\* the outcomes of os.Remove worth telling apart on file f
Removals(f) == IF f.kind = "absent" THEN {TRUE} ELSE BOOLEAN

\* ------------------------------------------------- DaemonManager.Status
\* faulty variant: the process being alive is taken as enough
Corroborated_LivenessOnly(up, pong) == up

\* faulty variant: no record is ever trusted
Corroborated_NeverTrusts(up, pong) == FALSE

\* "running" after the liveness check and the health check
Corroborated(up, pong) == IF up THEN pong = ErrNil ELSE FALSE

\* faulty variant: a stale record is reported but left in place
StaleOf_KeepsRecord(f, dok, probes) ==
    [running |-> FALSE, err |-> ErrNil, pid |-> 0, port |-> 0,
     startedAt |-> 0, uptime |-> 0, file |-> f, calls |-> probes]

\* the record is not trusted: clean up stale config, report not running
StaleOf(f, dok, probes) ==
    LET d == Delete(f, dok) IN
    [running |-> FALSE, err |-> ErrNil, pid |-> 0, port |-> 0,
     startedAt |-> 0, uptime |-> 0, file |-> d.file,
     calls |-> probes \o <<Call("Delete", 0, d.err)>>]

\* faulty variant: a record that is not there is not running, but with an error
StatusUnloadedOf_NotFoundIsError(f, lerr) ==
    [running |-> FALSE, err |-> lerr, pid |-> 0, port |-> 0,
     startedAt |-> 0, uptime |-> 0, file |-> f, calls |-> <<Call("Load", 0, lerr)>>]

\* Status when Load failed: not-found is "not running" with a nil error, any
\* other load error is returned wrapped.
StatusUnloadedOf(f, lerr) ==
    [running |-> FALSE, err |-> IF lerr = ErrConfigNotFound THEN ErrNil ELSE ErrDecode,
     pid |-> 0, port |-> 0, startedAt |-> 0, uptime |-> 0, file |-> f,
     calls |-> <<Call("Load", 0, lerr)>>]

\* faulty variant: the uptime is the time since the clock's origin
StatusOf_SinceEpoch(f, al, re, t, dok) ==
    LET ld == Load(f) IN
    IF ld.err # ErrNil THEN StatusUnloadedOf(f, ld.err)
    ELSE
        LET config == ld.cfg
            up == ProcIsRunning(config.pid, al)
            pong == Ping(config.port, re)
            running == Corroborated(up, pong)
            probes == <<Call("Load", 0, ErrNil), Call("IsRunning", config.pid, Bool(up))>>
                      \o (IF up THEN <<Call("Ping", config.port, pong)>> ELSE <<>>)
        IN  IF ~running
            THEN StaleOf(f, dok, probes)
            ELSE [running |-> TRUE, err |-> ErrNil, pid |-> config.pid,
                  port |-> config.port, startedAt |-> config.startedAt,
                  uptime |-> t, file |-> f, calls |-> probes]

\* The value Status returns, the calls it makes and the file it leaves.
StatusOf(f, al, re, t, dok) ==
    LET ld == Load(f) IN
    IF ld.err # ErrNil THEN StatusUnloadedOf(f, ld.err)
    ELSE
        LET config == ld.cfg
            up == ProcIsRunning(config.pid, al)
            pong == Ping(config.port, re)
            running == Corroborated(up, pong)
            probes == <<Call("Load", 0, ErrNil), Call("IsRunning", config.pid, Bool(up))>>
                      \o (IF up THEN <<Call("Ping", config.port, pong)>> ELSE <<>>)
        IN  IF ~running
            THEN StaleOf(f, dok, probes)
            ELSE [running |-> TRUE, err |-> ErrNil, pid |-> config.pid,
                  port |-> config.port, startedAt |-> config.startedAt,
                  uptime |-> t - config.startedAt, file |-> f, calls |-> probes]

\* faulty variant: the error test is inverted
IsRunningOf_Inverted(st) == IF st.err = ErrNil THEN FALSE ELSE st.running

\* DaemonManager.IsRunning
IsRunningOf(st) == IF st.err # ErrNil THEN FALSE ELSE st.running

\* faulty variant: the default port is returned instead of the status's port
GetPortOf_DefaultPort(st) ==
    IF st.err # ErrNil THEN [port |-> 0, err |-> st.err]
    ELSE IF ~st.running THEN [port |-> 0, err |-> ErrDaemonNotRunning]
    ELSE [port |-> DefaultPort, err |-> ErrNil]

\* faulty variant: the port of the status is returned without looking at running
GetPortOf_Unchecked(st) ==
    IF st.err # ErrNil THEN [port |-> 0, err |-> st.err]
    ELSE [port |-> st.port, err |-> ErrNil]

\* DaemonManager.GetPort
GetPortOf(st) ==
    IF st.err # ErrNil THEN [port |-> 0, err |-> st.err]
    ELSE IF ~st.running THEN [port |-> 0, err |-> ErrDaemonNotRunning]
    ELSE [port |-> st.port, err |-> ErrNil]

Idle(m) == pc[m] = "idle"

Status(m) ==
    /\ Idle(m)
    /\ \E dok \in Removals(file) :
        LET st == StatusOf(file, alive, reachable, now, dok) IN
        /\ file' = st.file
        /\ lastEv' = Ev("Status", m, st.err, st.running, st.pid, st.port,
                        st.startedAt, st.uptime, st.calls)
    /\ UNCHANGED <<alive, reachable, now, port, pc, spawned, pings, calls, caller, stream, env, client>>

IsRunning(m) ==
    /\ Idle(m)
    /\ \E dok \in Removals(file) :
        LET st == StatusOf(file, alive, reachable, now, dok) IN
        /\ file' = st.file
        /\ lastEv' = Ev("IsRunning", m, ErrNil, IsRunningOf(st), 0, 0, 0, 0, st.calls)
    /\ UNCHANGED <<alive, reachable, now, port, pc, spawned, pings, calls, caller, stream, env, client>>

GetPort(m) ==
    /\ Idle(m)
    /\ \E dok \in Removals(file) :
        LET st == StatusOf(file, alive, reachable, now, dok)
            gp == GetPortOf(st) IN
        /\ file' = st.file
        /\ lastEv' = Ev("GetPort", m, gp.err, FALSE, 0, gp.port, 0, 0, st.calls)
    /\ UNCHANGED <<alive, reachable, now, port, pc, spawned, pings, calls, caller, stream, env, client>>

\* --------------------------------------------------- DaemonManager.Stop
\* faulty variant: stopping when there is no record is reported as a success
StopUnloadedOf_NilWhenAbsent(f, al, lerr) ==
    [err |-> IF lerr = ErrConfigNotFound THEN ErrNil ELSE ErrDecode,
     file |-> f, alive |-> al, calls |-> <<Call("Load", 0, lerr)>>]

\* faulty variant: every load error is reported as NotRunning
StopUnloadedOf_AlwaysNotRunning(f, al, lerr) ==
    [err |-> ErrDaemonNotRunning, file |-> f, alive |-> al,
     calls |-> <<Call("Load", 0, lerr)>>]

\* Stop when Load failed: only the not-found error becomes NotRunning.
StopUnloadedOf(f, al, lerr) ==
    [err |-> IF lerr = ErrConfigNotFound THEN ErrDaemonNotRunning ELSE ErrDecode,
     file |-> f, alive |-> al, calls |-> <<Call("Load", 0, lerr)>>]

\* faulty variant: a dead process's record is reported but left in place
StopDeadOf_KeepsRecord(f, al, dok, probes) ==
    [err |-> ErrDaemonNotRunning, file |-> f, alive |-> al, calls |-> probes]

\* Stop when the recorded process is not alive: `_ = d.config.Delete()`.
StopDeadOf(f, al, dok, probes) ==
    LET d == Delete(f, dok) IN
    [err |-> ErrDaemonNotRunning, file |-> d.file, alive |-> al,
     calls |-> probes \o <<Call("Delete", 0, d.err)>>]

\* faulty variant: the record is deleted before the process is killed
StopLiveOf_DeleteFirst(f, al, pid, kok, exited, dok, probes) ==
    LET d == Delete(f, dok)
        k == Kill(pid, al, kok, exited) IN
    [err |-> IF k.err # ErrNil THEN ErrKill ELSE d.err, file |-> d.file,
     alive |-> k.alive,
     calls |-> probes \o <<Call("Delete", 0, d.err), Call("Kill", pid, k.err)>>]

\* faulty variant: a live worker is taken for a stale one
StopLiveOf_ReportsNotRunning(f, al, pid, kok, exited, dok, probes) ==
    LET d == Delete(f, dok) IN
    [err |-> ErrDaemonNotRunning, file |-> d.file, alive |-> al,
     calls |-> probes \o <<Call("Delete", 0, d.err)>>]

\* Stop when the recorded process is alive: Kill, then Delete.
StopLiveOf(f, al, pid, kok, exited, dok, probes) ==
    LET k == Kill(pid, al, kok, exited) IN
    IF k.err # ErrNil
    THEN [err |-> ErrKill, file |-> f, alive |-> k.alive,
          calls |-> probes \o <<Call("Kill", pid, k.err)>>]
    ELSE LET d == Delete(f, dok) IN
         [err |-> d.err, file |-> d.file, alive |-> k.alive,
          calls |-> probes \o <<Call("Kill", pid, k.err), Call("Delete", 0, d.err)>>]

StopOf(f, al, kok, exited, dok) ==
    LET ld == Load(f) IN
    IF ld.err # ErrNil THEN StopUnloadedOf(f, al, ld.err)
    ELSE
        LET config == ld.cfg
            up == ProcIsRunning(config.pid, al)
            probes == <<Call("Load", 0, ErrNil), Call("IsRunning", config.pid, Bool(up))>>
        IN  IF ~up
            THEN StopDeadOf(f, al, dok, probes)
            ELSE StopLiveOf(f, al, config.pid, kok, exited, dok, probes)

Stop(m) ==
    /\ Idle(m)
    /\ \E kok \in BOOLEAN, dok \in Removals(file) :
       \E exited \in IF kok THEN BOOLEAN ELSE {FALSE} :
        LET r == StopOf(file, alive, kok, exited, dok) IN
        /\ file' = r.file
        /\ alive' = r.alive
        /\ lastEv' = Ev("Stop", m, r.err, FALSE, 0, 0, 0, 0, r.calls)
    /\ UNCHANGED <<reachable, now, port, pc, spawned, pings, calls, caller, stream, env, client>>

\* -------------------------------------------------- DaemonManager.Start
\* Start only ever kills the pid it spawned itself, a child of the calling
\* process, so its Kill returns nil only once the process has exited.
\* faulty variant: a leftover record is left where it is
StartCheckOf_NoDelete(f, al, re, t, dok1, dok2) ==
    LET st == StatusOf(f, al, re, t, dok1) IN
    [already |-> IsRunningOf(st), file |-> st.file, calls |-> st.calls]

\* The already-running check and the removal of a leftover record.
StartCheckOf(f, al, re, t, dok1, dok2) ==
    LET st == StatusOf(f, al, re, t, dok1) IN
    IF IsRunningOf(st)
    THEN [already |-> TRUE, file |-> st.file, calls |-> st.calls]
    ELSE LET d == Delete(st.file, dok2) IN
         [already |-> FALSE, file |-> d.file,
          calls |-> st.calls \o <<Call("Delete", 0, d.err)>>]

\* faulty variant: the locator's error does not stop Start
LocateAndSpawnOf_SpawnsAnyway(al, found, sp) ==
    LET loc == <<Call("FindCLI", 0, IF found THEN ErrNil ELSE ErrCLINotFound)>> IN
    IF sp = 0
    THEN [err |-> IF found THEN ErrSpawn ELSE ErrCLINotFound, waiting |-> FALSE,
          alive |-> al, pid |-> 0,
          calls |-> loc \o <<Call("StartProcess", 0, ErrSpawn)>>]
    ELSE [err |-> ErrNil, waiting |-> TRUE, alive |-> al \cup {sp}, pid |-> sp,
          calls |-> loc \o <<Call("StartProcess", sp, ErrNil)>>]

\* faulty variant: a failed StartProcess is followed by the health wait
LocateAndSpawnOf_WaitsAnyway(al, found, sp) ==
    LET loc == <<Call("FindCLI", 0, IF found THEN ErrNil ELSE ErrCLINotFound)>> IN
    IF ~found
    THEN [err |-> ErrCLINotFound, waiting |-> FALSE, alive |-> al, pid |-> 0,
          calls |-> loc]
    ELSE IF sp = 0
    THEN [err |-> ErrNil, waiting |-> TRUE, alive |-> al, pid |-> 0,
          calls |-> loc \o <<Call("StartProcess", 0, ErrSpawn)>>]
    ELSE [err |-> ErrNil, waiting |-> TRUE, alive |-> al \cup {sp}, pid |-> sp,
          calls |-> loc \o <<Call("StartProcess", sp, ErrNil)>>]

\* FindCLI and StartProcess.  found: the locator found the executable;
\* sp: the pid StartProcess returned, 0 when it failed.
LocateAndSpawnOf(al, found, sp) ==
    LET loc == <<Call("FindCLI", 0, IF found THEN ErrNil ELSE ErrCLINotFound)>> IN
    IF ~found
    THEN [err |-> ErrCLINotFound, waiting |-> FALSE, alive |-> al, pid |-> 0,
          calls |-> loc]
    ELSE IF sp = 0
    THEN [err |-> ErrSpawn, waiting |-> FALSE, alive |-> al, pid |-> 0,
          calls |-> loc \o <<Call("StartProcess", 0, ErrSpawn)>>]
    ELSE [err |-> ErrNil, waiting |-> TRUE, alive |-> al \cup {sp}, pid |-> sp,
          calls |-> loc \o <<Call("StartProcess", sp, ErrNil)>>]

\* Start up to the health wait.
StartBeginOf(f, al, re, t, dok1, dok2, found, sp) ==
    LET c == StartCheckOf(f, al, re, t, dok1, dok2) IN
    IF c.already
    THEN [err |-> ErrDaemonAlreadyRunning, waiting |-> FALSE, file |-> c.file,
          alive |-> al, pid |-> 0, calls |-> c.calls]
    ELSE LET l == LocateAndSpawnOf(al, found, sp) IN
         [err |-> l.err, waiting |-> l.waiting, file |-> c.file,
          alive |-> l.alive, pid |-> l.pid, calls |-> c.calls \o l.calls]

StartBegin(m) ==
    /\ Idle(m)
    /\ \E dok1 \in Removals(file), dok2 \in Removals(file), found \in BOOLEAN :
       \E sp \in IF found THEN {0} \cup (Pids \ alive) ELSE {0} :
        LET r == StartBeginOf(file, alive, reachable, now, dok1, dok2, found, sp) IN
        /\ file' = r.file
        /\ alive' = r.alive
        /\ spawned' = [spawned EXCEPT ![m] = r.pid]
        /\ pings' = [pings EXCEPT ![m] = 0]
        /\ IF r.waiting
           THEN /\ pc' = [pc EXCEPT ![m] = "waiting"]
                /\ calls' = [calls EXCEPT ![m] = r.calls]
                /\ lastEv' = Ev("StartWait", m, ErrNil, FALSE, r.pid, port[m], 0, 0, <<>>)
           ELSE /\ pc' = pc
                /\ calls' = calls
                /\ lastEv' = Ev("Start", m, r.err, FALSE, 0, port[m], 0, 0, r.calls)
    /\ UNCHANGED <<reachable, now, port, caller, stream, env, client>>

\* faulty variant: a failed Save is returned without killing the worker
SaveConfigOf_NoRollback(f, al, t, prt, pid, sok, kok) ==
    LET config == Config(pid, prt, t, TRUE)
        s == Save(f, config, sok)
    IN  [err |-> s.err, file |-> s.file, alive |-> al,
         calls |-> <<Call("Save", pid, s.err)>>]

\* faulty variant: a record that is already there is not overwritten
SaveConfigOf_FirstWins(f, al, t, prt, pid, sok, kok) ==
    IF IsRec(f)
    THEN [err |-> ErrNil, file |-> f, alive |-> al,
          calls |-> <<Call("Save", pid, ErrNil)>>]
    ELSE LET s == Save(f, Config(pid, prt, t, TRUE), sok) IN
         [err |-> s.err, file |-> s.file, alive |-> al,
          calls |-> <<Call("Save", pid, s.err)>>]

\* Start after waitForHealthy returned nil: save the record, or roll back.
SaveConfigOf(f, al, t, prt, pid, sok, kok) ==
    LET config == Config(pid, prt, t, TRUE)
        s == Save(f, config, sok)
    IN  IF s.err # ErrNil
        THEN LET k == Kill(pid, al, kok, TRUE) IN
             [err |-> ErrSave, file |-> s.file, alive |-> k.alive,
              calls |-> <<Call("Save", pid, s.err), Call("Kill", pid, k.err)>>]
        ELSE [err |-> ErrNil, file |-> s.file, alive |-> al,
              calls |-> <<Call("Save", pid, s.err)>>]

\* faulty variant: the record is saved on a tick before the port is pinged
StartTickOf_SavesFirst(f, al, re, t, prt, pid, sok, kok) ==
    LET s == SaveConfigOf(f, al, t, prt, pid, sok, kok)
        pong == Ping(prt, re) IN
    [done |-> pong = ErrNil, err |-> s.err, file |-> s.file, alive |-> s.alive,
     calls |-> s.calls \o <<Call("Ping", prt, pong)>>]

\* faulty variant: the loop ends on the first tick whatever Ping returned
StartTickOf_IgnoresPing(f, al, re, t, prt, pid, sok, kok) ==
    LET pong == Ping(prt, re)
        s == SaveConfigOf(f, al, t, prt, pid, sok, kok) IN
    [done |-> TRUE, err |-> s.err, file |-> s.file, alive |-> s.alive,
     calls |-> <<Call("Ping", prt, pong)>> \o s.calls]

\* One tick of waitForHealthy and, when the ping succeeds, the rest of Start.
StartTickOf(f, al, re, t, prt, pid, sok, kok) ==
    LET pong == Ping(prt, re) IN
    IF pong # ErrNil
    THEN [done |-> FALSE, err |-> ErrNil, file |-> f, alive |-> al,
          calls |-> <<Call("Ping", prt, pong)>>]
    ELSE LET s == SaveConfigOf(f, al, t, prt, pid, sok, kok) IN
         [done |-> TRUE, err |-> s.err, file |-> s.file, alive |-> s.alive,
          calls |-> <<Call("Ping", prt, pong)>> \o s.calls]

StartTick(m) ==
    /\ pc[m] = "waiting"
    /\ pings[m] < MaxPings
    /\ \E sok \in BOOLEAN : \E kok \in IF sok THEN {TRUE} ELSE BOOLEAN :
        LET r == StartTickOf(file, alive, reachable, now, port[m], spawned[m], sok, kok) IN
        /\ file' = r.file
        /\ alive' = r.alive
        /\ IF r.done
           THEN /\ pc' = [pc EXCEPT ![m] = "idle"]
                /\ calls' = [calls EXCEPT ![m] = <<>>]
                /\ pings' = [pings EXCEPT ![m] = 0]
                /\ spawned' = [spawned EXCEPT ![m] = 0]
                /\ lastEv' = Ev("Start", m, r.err, FALSE, spawned[m], port[m], 0, 0,
                                calls[m] \o r.calls)
           ELSE /\ pc' = pc
                /\ calls' = [calls EXCEPT ![m] = @ \o r.calls]
                /\ pings' = [pings EXCEPT ![m] = @ + 1]
                /\ spawned' = spawned
                /\ lastEv' = Ev("StartWait", m, ErrNil, FALSE, spawned[m], port[m], 0, 0, <<>>)
    /\ UNCHANGED <<reachable, now, port, caller, stream, env, client>>

\* faulty variant: the timeout is returned without killing the worker
StartDeadlineOf_NoKill(al, pid, kok) ==
    [err |-> ErrStartTimeout, alive |-> al, calls |-> <<>>]

\* faulty variant: the timeout is formatted with %v, so errors.Is no longer matches
StartDeadlineOf_Unwrapped(al, pid, kok) ==
    LET k == Kill(pid, al, kok, TRUE) IN
    [err |-> ErrPing, alive |-> k.alive, calls |-> <<Call("Kill", pid, k.err)>>]

\* ctx.Done() fires in waitForHealthy: Start kills the worker and fails.
StartDeadlineOf(al, pid, kok) ==
    LET k == Kill(pid, al, kok, TRUE) IN
    [err |-> ErrStartTimeout, alive |-> k.alive,
     calls |-> <<Call("Kill", pid, k.err)>>]

StartDeadline(m) ==
    /\ pc[m] = "waiting"
    /\ \E kok \in BOOLEAN :
        LET r == StartDeadlineOf(alive, spawned[m], kok) IN
        /\ alive' = r.alive
        /\ lastEv' = Ev("Start", m, r.err, FALSE, spawned[m], port[m], 0, 0,
                        calls[m] \o r.calls)
    /\ pc' = [pc EXCEPT ![m] = "idle"]
    /\ calls' = [calls EXCEPT ![m] = <<>>]
    /\ pings' = [pings EXCEPT ![m] = 0]
    /\ spawned' = [spawned EXCEPT ![m] = 0]
    /\ UNCHANGED <<file, reachable, now, port, caller, stream, env, client>>

\* --------------------------------------------------------- environment
\* A process exits on its own.
ProcessExits ==
    /\ \E p \in alive : alive' = alive \ {p}
    /\ lastEv' = EnvEv
    /\ UNCHANGED <<file, reachable, now, port, pc, spawned, pings, calls, caller, stream, env, client>>

\* A port starts or stops accepting connections.
PortChanges ==
    /\ \E q \in Ports :
        reachable' = IF q \in reachable THEN reachable \ {q} ELSE reachable \cup {q}
    /\ lastEv' = EnvEv
    /\ UNCHANGED <<file, alive, now, port, pc, spawned, pings, calls, caller, stream, env, client>>

\* Time passes.
ClockAdvances ==
    /\ now < MaxTime
    /\ now' = now + 1
    /\ lastEv' = EnvEv
    /\ UNCHANGED <<file, alive, reachable, port, pc, spawned, pings, calls, caller, stream, env, client>>

\* ------------------------------------------------- EnvCLIFinder.FindCLI
ErrNotInPath == "NotInPath"
\* a file path is a directory and a name; NoPath is the empty string
NoPath == [dir |-> "", name |-> ""]
Dirs == {"/opt/copilot", "/usr/bin"}
Names == {"copilot", "copilot-dev"}
FilePaths == [dir : Dirs, name : Names]
\* the values of PATH tried
SearchPaths == {<<>>, <<"/usr/bin">>, <<"/opt/copilot", "/usr/bin">>}
NoEnv == [override |-> NoPath, path |-> <<>>, exists |-> {},
          res |-> [path |-> NoPath, err |-> ErrNil]]

\* exec.LookPath(name): the file of that name in the first directory of
\* PATH that has one
RECURSIVE LookPath(_, _, _)
LookPath(name, path, exists) ==
    IF path = <<>> THEN [path |-> NoPath, err |-> ErrNotInPath]
    ELSE IF [dir |-> Head(path), name |-> name] \in exists
         THEN [path |-> [dir |-> Head(path), name |-> name], err |-> ErrNil]
         ELSE LookPath(name, Tail(path), exists)

\* faulty variant: the override is returned without os.Stat
FindCLIOf_NoStat(e) ==
    IF e.override # NoPath THEN [path |-> e.override, err |-> ErrNil]
    ELSE LookPath("copilot", e.path, e.exists)

FindCLIOf(e) ==
    IF e.override # NoPath /\ e.override \in e.exists
    THEN [path |-> e.override, err |-> ErrNil]
    ELSE LookPath("copilot", e.path, e.exists)

FindCLI ==
    /\ env' = [env EXCEPT !.res = FindCLIOf(env)]
    /\ lastEv' = Ev("FindCLI", 1, env'.res.err, FALSE, 0, 0, 0, 0, <<>>)
    /\ UNCHANGED <<file, alive, reachable, now, port, pc, spawned, pings, calls, caller, stream, client>>

\* COPILOT_CLI_PATH is set, or unset
Setenv ==
    /\ \E o \in {NoPath} \cup FilePaths : env' = [env EXCEPT !.override = o]
    /\ lastEv' = EnvEv
    /\ UNCHANGED <<file, alive, reachable, now, port, pc, spawned, pings, calls, caller, stream, client>>

\* PATH is set
SetSearchPath ==
    /\ \E sp \in SearchPaths : env' = [env EXCEPT !.path = sp]
    /\ lastEv' = EnvEv
    /\ UNCHANGED <<file, alive, reachable, now, port, pc, spawned, pings, calls, caller, stream, client>>

\* a file is created or removed
FileChanges ==
    /\ \E f \in FilePaths :
        env' = [env EXCEPT !.exists = IF f \in @ THEN @ \ {f} ELSE @ \cup {f}]
    /\ lastEv' = EnvEv
    /\ UNCHANGED <<file, alive, reachable, now, port, pc, spawned, pings, calls, caller, stream, client>>

\* ------------------------------------- client.NewClientWithDaemonChecker
ErrClient == "ClientStartErr"
\* the embedded server: copilot.NewClient(nil)
Embedded == 0
\* what GetPort can return
GetPortResults == [port : Ports, err : {ErrNil}] \cup {[port |-> 0, err |-> ErrDaemonNotRunning]}
\* given: a checker was passed in; default: server.DefaultDaemonManager()
\* returned one; running, gp: what IsRunning and GetPort return;
\* serving: the ports on which the SDK client's Start succeeds; embedOk:
\* the embedded server starts.  res: the client returned, the servers
\* its SDK clients were started against, the checker calls made.
NoClient ==
    [given |-> FALSE, default |-> FALSE, running |-> FALSE,
     gp |-> [port |-> 0, err |-> ErrDaemonNotRunning], serving |-> {}, embedOk |-> FALSE,
     res |-> [err |-> ErrNil, usingDaemon |-> FALSE, url |-> Embedded,
              started |-> <<>>, asked |-> <<>>]]

\* sdkCli.Start() of a client made for server u
SdkStart(u, c) ==
    IF u = Embedded THEN (IF c.embedOk THEN ErrNil ELSE ErrClient)
    ELSE (IF u \in c.serving THEN ErrNil ELSE ErrClient)

\* faulty variant: the fallback leaves usingDaemon set
FallbackOf_KeepsDaemonFlag(c, u, asked) ==
    IF SdkStart(Embedded, c) # ErrNil
    THEN [err |-> ErrClient, usingDaemon |-> FALSE, url |-> Embedded,
          started |-> <<u, Embedded>>, asked |-> asked]
    ELSE [err |-> ErrNil, usingDaemon |-> TRUE, url |-> Embedded,
          started |-> <<u, Embedded>>, asked |-> asked]

\* the daemon connection failed: start an embedded server instead
FallbackOf(c, u, asked) ==
    IF SdkStart(Embedded, c) # ErrNil
    THEN [err |-> ErrClient, usingDaemon |-> FALSE, url |-> Embedded,
          started |-> <<u, Embedded>>, asked |-> asked]
    ELSE [err |-> ErrNil, usingDaemon |-> FALSE, url |-> Embedded,
          started |-> <<u, Embedded>>, asked |-> asked]

NewClientOf(c) ==
    LET checker == c.given \/ c.default
        isRunning == checker /\ c.running
        viaDaemon == isRunning /\ c.gp.err = ErrNil
        asked == (IF checker THEN <<"IsRunning">> ELSE <<>>)
                 \o (IF isRunning THEN <<"GetPort">> ELSE <<>>)
        u == IF viaDaemon THEN c.gp.port ELSE Embedded
    IN  IF SdkStart(u, c) # ErrNil
        THEN IF viaDaemon
             THEN FallbackOf(c, u, asked)
             ELSE [err |-> ErrClient, usingDaemon |-> FALSE, url |-> Embedded,
                   started |-> <<u>>, asked |-> asked]
        ELSE [err |-> ErrNil, usingDaemon |-> viaDaemon, url |-> u,
              started |-> <<u>>, asked |-> asked]

NewClient ==
    /\ client' = [client EXCEPT !.res = NewClientOf(client)]
    /\ lastEv' = Ev("NewClient", 0, client'.res.err, FALSE, 0, client'.res.url, 0, 0, <<>>)
    /\ UNCHANGED <<file, alive, reachable, now, port, pc, spawned, pings, calls, caller, stream, env>>

\* the caller passes a checker or nil; the default manager can or cannot be made
CheckerChanges ==
    /\ \E g \in BOOLEAN, d \in BOOLEAN :
        client' = [client EXCEPT !.given = g, !.default = d]
    /\ lastEv' = EnvEv
    /\ UNCHANGED <<file, alive, reachable, now, port, pc, spawned, pings, calls, caller, stream, env>>

\* the daemon starts or stops, or moves to another port
DaemonChanges ==
    /\ \E r \in BOOLEAN, g \in GetPortResults :
        client' = [client EXCEPT !.running = r, !.gp = g]
    /\ lastEv' = EnvEv
    /\ UNCHANGED <<file, alive, reachable, now, port, pc, spawned, pings, calls, caller, stream, env>>

\* a server starts or stops accepting SDK clients
ServerChanges ==
    /\ \E sv \in SUBSET Ports, e \in BOOLEAN :
        client' = [client EXCEPT !.serving = sv, !.embedOk = e]
    /\ lastEv' = EnvEv
    /\ UNCHANGED <<file, alive, reachable, now, port, pc, spawned, pings, calls, caller, stream, env>>

\* ------------------------------------------------------- specification
\* no worker has been spawned with port detection
NoStream ==
    [out |-> <<>>, eof |-> FALSE, read |-> <<>>, sink |-> <<>>,
     ch |-> "empty", chval |-> 0, scan |-> "none"]

\* the ConfigStore has not been used directly
\* (writing, before: the argument of a Save that is under way and the file
\* content it found)
NoCaller ==
    [saved |-> NoConfig, loaded |-> [err |-> ErrNil, cfg |-> NoConfig],
     writing |-> NoConfig, before |-> Absent]

InitRecords == {c \in DaemonConfig : c.startedAt = 0}

Init ==
    /\ file \in {Absent, Malformed} \cup InitRecords
    /\ alive \in SUBSET Pids
    /\ reachable \in SUBSET Ports
    /\ now = 0
    /\ port = [m \in Mgrs |-> DefaultPort]
    /\ pc = [m \in Mgrs |-> "idle"]
    /\ spawned = [m \in Mgrs |-> 0]
    /\ pings = [m \in Mgrs |-> 0]
    /\ calls = [m \in Mgrs |-> <<>>]
    /\ lastEv = NoEv
    /\ caller = NoCaller
    /\ stream = NoStream
    /\ env = NoEnv
    /\ client = NoClient

\* the operations of one invocation of the tool
Op(m) ==
    \/ Status(m)
    \/ IsRunning(m)
    \/ GetPort(m)
    \/ Stop(m)
    \/ StartBegin(m)
    \/ StartTick(m)
    \/ StartDeadline(m)

\* One invocation at a time, with processes and ports changing under it.
Next ==
    \/ Op(1)
    \/ ProcessExits
    \/ PortChanges

Spec == Init /\ [][Next]_vars

\* Two invocations of the tool calling Start at once: nothing but the record file is
\* shared between them and nothing orders their steps.
StartOp(m) ==
    \/ StartBegin(m)
    \/ StartTick(m)
    \/ StartDeadline(m)

\* a worker that was spawned starts accepting connections on its port
WorkerListens ==
    /\ \E m \in Mgrs :
        /\ pc[m] = "waiting" /\ spawned[m] \in alive
        /\ port[m] \notin reachable
        /\ reachable' = reachable \cup {port[m]}
    /\ lastEv' = EnvEv
    /\ UNCHANGED <<file, alive, now, port, pc, spawned, pings, calls, caller, stream, env, client>>

NextTwo ==
    \/ StartOp(1)
    \/ StartOp(2)
    \/ WorkerListens

\* no record, no worker, nothing listening
InitTwo ==
    /\ file = Absent
    /\ alive = {}
    /\ reachable = {}
    /\ now = 0
    /\ port = [m \in Mgrs |-> DefaultPort]
    /\ pc = [m \in Mgrs |-> "idle"]
    /\ spawned = [m \in Mgrs |-> 0]
    /\ pings = [m \in Mgrs |-> 0]
    /\ calls = [m \in Mgrs |-> <<>>]
    /\ lastEv = NoEv
    /\ caller = NoCaller
    /\ stream = NoStream
    /\ env = NoEnv
    /\ client = NoClient

SpecTwo == InitTwo /\ [][NextTwo]_vars

\* One Start with its health wait.  The context made by
\* context.WithTimeout closes Done() once startTimeout has passed, and from
\* then on every turn of the select can take that case: the deadline branch
\* stays enabled until it is taken, which is weak fairness.
NextWait ==
    \/ StartOp(1)
    \/ ProcessExits
    \/ PortChanges

SpecWait == Init /\ [][NextWait]_vars /\ WF_vars(StartDeadline(1))

\* The same with the clock running, for what depends on startedAt and uptime.
NextClock ==
    \/ Next
    \/ ClockAdvances

SpecClock == Init /\ [][NextClock]_vars

\* Status called again and again while time passes, processes exit and
\* ports open and close.  The record may have been saved at any time up to
\* now.
ClockTicks ==
    /\ now < MaxTime
    /\ now' = now + 1
    /\ UNCHANGED <<file, alive, reachable, port, pc, spawned, pings, calls, lastEv, caller, stream, env, client>>

InitUptime ==
    /\ now \in Times
    /\ file \in {Absent, Malformed} \cup {c \in DaemonConfig : c.startedAt <= now}
    /\ alive \in SUBSET Pids
    /\ reachable \in SUBSET Ports
    /\ port = [m \in Mgrs |-> DefaultPort]
    /\ pc = [m \in Mgrs |-> "idle"]
    /\ spawned = [m \in Mgrs |-> 0]
    /\ pings = [m \in Mgrs |-> 0]
    /\ calls = [m \in Mgrs |-> <<>>]
    /\ lastEv = NoEv
    /\ caller = NoCaller
    /\ stream = NoStream
    /\ env = NoEnv
    /\ client = NoClient

NextUptime ==
    \/ Status(1)
    \/ ClockTicks
    \/ ProcessExits
    \/ PortChanges

SpecUptime == InitUptime /\ [][NextUptime]_vars

\* ------------------------------------- the ConfigStore used on its own
\* One user of a FileConfigStore calling Save, Load and Delete directly.
StoreEv(op, err, cfg) == Ev(op, 0, err, FALSE, cfg.pid, cfg.port, cfg.startedAt, 0, <<>>)

CallSave ==
    /\ \E cfg \in Configs, sok \in BOOLEAN :
        LET s == Save(file, cfg, sok) IN
        /\ file' = s.file
        /\ caller' = [caller EXCEPT !.saved = IF s.err = ErrNil THEN cfg ELSE NoConfig]
        /\ lastEv' = StoreEv("Save", s.err, cfg)
    /\ UNCHANGED <<alive, reachable, now, port, pc, spawned, pings, calls, stream, env, client>>

CallLoad ==
    /\ LET ld == Load(file) IN
        /\ caller' = [caller EXCEPT !.loaded = ld]
        /\ lastEv' = StoreEv("Load", ld.err, ld.cfg)
    /\ UNCHANGED <<file, alive, reachable, now, port, pc, spawned, pings, calls, stream, env, client>>

CallDelete ==
    /\ \E dok \in Removals(file) :
        LET d == Delete(file, dok) IN
        /\ file' = d.file
        /\ caller' = [caller EXCEPT !.saved = NoConfig]
        /\ lastEv' = StoreEv("Delete", d.err, NoConfig)
    /\ UNCHANGED <<alive, reachable, now, port, pc, spawned, pings, calls, stream, env, client>>

InitStore ==
    /\ file \in {Absent, Malformed, EmptyObject} \cup DaemonConfig
    /\ alive = {}
    /\ reachable = {}
    /\ now = 0
    /\ port = [m \in Mgrs |-> DefaultPort]
    /\ pc = [m \in Mgrs |-> "idle"]
    /\ spawned = [m \in Mgrs |-> 0]
    /\ pings = [m \in Mgrs |-> 0]
    /\ calls = [m \in Mgrs |-> <<>>]
    /\ lastEv = NoEv
    /\ caller = NoCaller
    /\ stream = NoStream
    /\ env = NoEnv
    /\ client = NoClient

NextStore ==
    \/ CallSave
    \/ CallLoad
    \/ CallDelete

SpecStore == InitStore /\ [][NextStore]_vars

\* ----------------------------- Save step by step, with a concurrent Load
\* os.WriteFile opens the file with O_WRONLY|O_CREATE|O_TRUNC and then writes:
\* between the two the file exists and is empty, which does not decode.
\* Invocation 1 saves; invocation 2 loads at any moment.
SaveTruncate ==
    /\ pc[1] = "idle"
    /\ \E cfg \in Configs, sok \in BOOLEAN :
        IF sok
        THEN /\ file' = Malformed
             /\ pc' = [pc EXCEPT ![1] = "writing"]
             /\ caller' = [caller EXCEPT !.writing = cfg, !.before = file]
             /\ lastEv' = Ev("SaveOpen", 1, ErrNil, FALSE, cfg.pid, cfg.port, cfg.startedAt, 0, <<>>)
        ELSE /\ lastEv' = Ev("Save", 1, ErrSave, FALSE, cfg.pid, cfg.port, cfg.startedAt, 0, <<>>)
             /\ UNCHANGED <<file, pc, caller, stream, env, client>>
    /\ UNCHANGED <<alive, reachable, now, port, spawned, pings, calls, stream, env, client>>

SaveWrite ==
    /\ pc[1] = "writing"
    /\ \E wok \in BOOLEAN :
        LET cfg == caller.writing IN
        /\ file' = IF wok THEN Marshal(cfg) ELSE Malformed
        /\ caller' = [caller EXCEPT !.saved = IF wok THEN cfg ELSE NoConfig,
                                     !.writing = NoConfig, !.before = Absent]
        /\ lastEv' = Ev("Save", 1, IF wok THEN ErrNil ELSE ErrSave, FALSE,
                        cfg.pid, cfg.port, cfg.startedAt, 0, <<>>)
    /\ pc' = [pc EXCEPT ![1] = "idle"]
    /\ UNCHANGED <<alive, reachable, now, port, spawned, pings, calls, stream, env, client>>

LoadByOther ==
    /\ LET ld == Load(file) IN
        /\ caller' = [caller EXCEPT !.loaded = ld]
        /\ lastEv' = Ev("Load", 2, ld.err, FALSE, ld.cfg.pid, ld.cfg.port,
                        ld.cfg.startedAt, 0, <<>>)
    /\ UNCHANGED <<file, alive, reachable, now, port, pc, spawned, pings, calls, stream, env, client>>

InitSaveRace ==
    /\ file \in {Absent} \cup InitRecords
    /\ alive = {}
    /\ reachable = {}
    /\ now = 0
    /\ port = [m \in Mgrs |-> DefaultPort]
    /\ pc = [m \in Mgrs |-> "idle"]
    /\ spawned = [m \in Mgrs |-> 0]
    /\ pings = [m \in Mgrs |-> 0]
    /\ calls = [m \in Mgrs |-> <<>>]
    /\ lastEv = NoEv
    /\ caller = NoCaller
    /\ stream = NoStream
    /\ env = NoEnv
    /\ client = NoClient

NextSaveRace ==
    \/ SaveTruncate
    \/ SaveWrite
    \/ LoadByOther

SpecSaveRace == InitSaveRace /\ [][NextSaveRace]_vars

\* ------------------------------------- OSProcessManager, signal by signal
ErrProcessDone == "ProcessDone"
ErrPerm == "NotPermitted"
\* the pids Kill and IsRunning are called with
PidArgs == -1..MaxPid

\* os.Process.Signal on a pid > 0: the process is gone, or the caller may not
\* signal it (perm false), or the signal is delivered.
SignalOf(pid, al, perm) ==
    IF pid \notin al THEN ErrProcessDone
    ELSE IF perm THEN ErrNil ELSE ErrPerm

\* faulty variant: signal 0 is sent whatever the pid
OSIsRunningOf_NoGuard(pid, al, perm) ==
    LET e == SignalOf(pid, al, perm) IN
    [running |-> e = ErrNil, sigs |-> <<Call("Signal0", pid, e)>>]

\* OSProcessManager.IsRunning
OSIsRunningOf(pid, al, perm) ==
    IF pid <= 0 THEN [running |-> FALSE, sigs |-> <<>>]
    ELSE LET e == SignalOf(pid, al, perm) IN
         [running |-> e = ErrNil, sigs |-> <<Call("Signal0", pid, e)>>]

\* faulty variant: SIGTERM is sent whatever the pid
OSKillBeginOf_NoGuard(pid, al, perm, child) ==
    LET e == SignalOf(pid, al, perm)
        term == <<Call("SIGTERM", pid, e)>> IN
    IF e # ErrNil THEN [waiting |-> FALSE, err |-> ErrNil, sigs |-> term]
    ELSE [waiting |-> child, err |-> ErrNil, sigs |-> term]

\* OSProcessManager.Kill up to its select.  child: pid is a child of the
\* calling process, so process.Wait() blocks until it exits; for any other
\* pid Wait fails at once and the done branch is taken.
OSKillBeginOf(pid, al, perm, child) ==
    IF pid <= 0 THEN [waiting |-> FALSE, err |-> ErrKill, sigs |-> <<>>]
    ELSE LET e == SignalOf(pid, al, perm)
             term == <<Call("SIGTERM", pid, e)>> IN
         IF e # ErrNil THEN [waiting |-> FALSE, err |-> ErrNil, sigs |-> term]
         ELSE [waiting |-> child, err |-> ErrNil, sigs |-> term]

\* the pid of the Kill that is waiting in its select
Target == calls[1][1].arg

OSKill ==
    /\ pc[1] = "idle"
    /\ \E pid \in PidArgs :
       \E perm \in IF pid = spawned[1] \/ pid \notin alive THEN {TRUE} ELSE BOOLEAN :
        LET r == OSKillBeginOf(pid, alive, perm, pid = spawned[1]) IN
        IF r.waiting
        THEN /\ pc' = [pc EXCEPT ![1] = "killing"]
             /\ calls' = [calls EXCEPT ![1] = r.sigs]
             /\ lastEv' = Ev("KillWait", 1, ErrNil, FALSE, pid, 0, 0, 0, <<>>)
        ELSE /\ lastEv' = Ev("Kill", 1, r.err, FALSE, pid, 0, 0, 0, r.sigs)
             /\ UNCHANGED <<pc, calls, stream, env, client>>
    /\ UNCHANGED <<file, alive, reachable, now, port, spawned, pings, caller, stream, env, client>>

\* select: the Wait goroutine reported the exit of the process
OSKillWaited ==
    /\ pc[1] = "killing"
    /\ Target \notin alive
    /\ pc' = [pc EXCEPT ![1] = "idle"]
    /\ calls' = [calls EXCEPT ![1] = <<>>]
    /\ lastEv' = Ev("Kill", 1, ErrNil, FALSE, Target, 0, 0, 0, calls[1])
    /\ UNCHANGED <<file, alive, reachable, now, port, spawned, pings, caller, stream, env, client>>

\* select: stopTimeout elapsed first (or together with the exit): SIGKILL
OSKillGraceElapsed ==
    /\ pc[1] = "killing"
    /\ LET e == SignalOf(Target, alive, TRUE) IN
        /\ alive' = alive \ {Target}
        /\ lastEv' = Ev("Kill", 1, IF e = ErrNil THEN ErrNil ELSE ErrKill, FALSE,
                        Target, 0, 0, 0, calls[1] \o <<Call("SIGKILL", Target, e)>>)
    /\ pc' = [pc EXCEPT ![1] = "idle"]
    /\ calls' = [calls EXCEPT ![1] = <<>>]
    /\ UNCHANGED <<file, reachable, now, port, spawned, pings, caller, stream, env, client>>

OSIsRunning ==
    /\ pc[1] = "idle"
    /\ \E pid \in PidArgs :
       \E perm \in IF pid \in alive THEN BOOLEAN ELSE {TRUE} :
        LET r == OSIsRunningOf(pid, alive, perm) IN
        lastEv' = Ev("OSIsRunning", 1, ErrNil, r.running, pid, 0, 0, 0, r.sigs)
    /\ UNCHANGED <<file, alive, reachable, now, port, pc, spawned, pings, calls, caller, stream, env, client>>

\* spawned[1] is the one child of the calling process, 0 when it has none
InitOS ==
    /\ file = Absent
    /\ alive \in SUBSET Pids
    /\ reachable = {}
    /\ now = 0
    /\ port = [m \in Mgrs |-> DefaultPort]
    /\ pc = [m \in Mgrs |-> "idle"]
    /\ \E c \in 0..MaxPid : spawned = [m \in Mgrs |-> IF m = 1 THEN c ELSE 0]
    /\ pings = [m \in Mgrs |-> 0]
    /\ calls = [m \in Mgrs |-> <<>>]
    /\ lastEv = NoEv
    /\ caller = NoCaller
    /\ stream = NoStream
    /\ env = NoEnv
    /\ client = NoClient

NextOS ==
    \/ OSKill
    \/ OSKillWaited
    \/ OSKillGraceElapsed
    \/ OSIsRunning
    \/ ProcessExits

SpecOS == InitOS /\ [][NextOS]_vars

InitFind ==
    /\ file = Absent
    /\ alive = {}
    /\ reachable = {}
    /\ now = 0
    /\ port = [m \in Mgrs |-> DefaultPort]
    /\ pc = [m \in Mgrs |-> "idle"]
    /\ spawned = [m \in Mgrs |-> 0]
    /\ pings = [m \in Mgrs |-> 0]
    /\ calls = [m \in Mgrs |-> <<>>]
    /\ lastEv = NoEv
    /\ caller = NoCaller
    /\ stream = NoStream
    /\ env = NoEnv
    /\ client = NoClient

NextFind == FindCLI \/ Setenv \/ SetSearchPath \/ FileChanges

SpecFind == InitFind /\ [][NextFind]_vars

InitClient ==
    /\ file = Absent
    /\ alive = {}
    /\ reachable = {}
    /\ now = 0
    /\ port = [m \in Mgrs |-> DefaultPort]
    /\ pc = [m \in Mgrs |-> "idle"]
    /\ spawned = [m \in Mgrs |-> 0]
    /\ pings = [m \in Mgrs |-> 0]
    /\ calls = [m \in Mgrs |-> <<>>]
    /\ lastEv = NoEv
    /\ caller = NoCaller
    /\ stream = NoStream
    /\ env = NoEnv
    /\ client = NoClient

NextClient == NewClient \/ CheckerChanges \/ DaemonChanges \/ ServerChanges

SpecClient == InitClient /\ [][NextClient]_vars

\* ---------------- StreamingProcessManager.StartProcessWithPortDetection
\* A line of the worker's standard output: one that matches
\* `listening on port (\d+)`, with its number, or any other line.
Announce(n) == [kind |-> "announce", n |-> n]
LogLine == [kind |-> "log", n |-> 0]
Lines == {LogLine} \cup {Announce(n) : n \in Ports}

\* faulty variant: a line is echoed only when it does not match
ScanLineOf_EchoAfterMatch(st) ==
    LET line == Head(st.out)
        hit == line.kind = "announce" IN
    [st EXCEPT !.out = Tail(st.out),
               !.read = Append(st.read, line),
               !.sink = IF hit THEN st.sink ELSE Append(st.sink, line),
               !.ch = IF hit THEN "full" ELSE st.ch,
               !.chval = IF hit THEN line.n ELSE st.chval,
               !.scan = IF hit THEN "done" ELSE "running"]

\* One turn of the scanner goroutine's loop on the next line: echo it, and
\* on a match send the number on portChan and return.
ScanLineOf(st) ==
    LET line == Head(st.out)
        hit == line.kind = "announce" IN
    [st EXCEPT !.out = Tail(st.out),
               !.read = Append(st.read, line),
               !.sink = Append(st.sink, line),
               !.ch = IF hit THEN "full" ELSE st.ch,
               !.chval = IF hit THEN line.n ELSE st.chval,
               !.scan = IF hit THEN "done" ELSE "running"]

\* `case port := <-portChan`: a buffered number, or the zero value of a
\* closed channel.
SelectPortOf(st, pid) ==
    [pid |-> pid, port |-> IF st.ch = "full" THEN st.chval ELSE 0, err |-> ErrNil]

\* cmd.Start and the start of the two goroutines; sp: the pid, 0 on failure
SpawnCall ==
    /\ pc[1] = "idle" /\ stream.scan = "none"
    /\ \E sp \in {0} \cup (Pids \ alive) :
        IF sp = 0
        THEN /\ lastEv' = Ev("Spawn", 1, ErrSpawn, FALSE, 0, 0, 0, 0, <<>>)
             /\ UNCHANGED <<alive, pc, spawned, stream, env, client>>
        ELSE /\ alive' = alive \cup {sp}
             /\ pc' = [pc EXCEPT ![1] = "selecting"]
             /\ spawned' = [spawned EXCEPT ![1] = sp]
             /\ stream' = [stream EXCEPT !.scan = "running"]
             /\ lastEv' = Ev("SpawnWait", 1, ErrNil, FALSE, sp, 0, 0, 0, <<>>)
    /\ UNCHANGED <<file, reachable, now, port, pings, calls, caller, env, client>>

\* the worker writes a line to its standard output
WorkerWrites ==
    /\ spawned[1] \in alive /\ ~stream.eof
    /\ Len(stream.out) + Len(stream.read) < MaxLines
    /\ \E line \in Lines : stream' = [stream EXCEPT !.out = Append(stream.out, line)]
    /\ UNCHANGED <<file, alive, reachable, now, port, pc, spawned, pings, calls, lastEv, caller, env, client>>

\* the worker closes its standard output and keeps running
WorkerCloses ==
    /\ spawned[1] \in alive /\ ~stream.eof
    /\ stream' = [stream EXCEPT !.eof = TRUE]
    /\ UNCHANGED <<file, alive, reachable, now, port, pc, spawned, pings, calls, lastEv, caller, env, client>>

\* the worker exits, which closes its standard output
WorkerExits ==
    /\ spawned[1] \in alive
    /\ alive' = alive \ {spawned[1]}
    /\ stream' = [stream EXCEPT !.eof = TRUE]
    /\ UNCHANGED <<file, reachable, now, port, pc, spawned, pings, calls, lastEv, caller, env, client>>

ScanLine ==
    /\ stream.scan = "running" /\ stream.out # <<>>
    /\ stream' = ScanLineOf(stream)
    /\ UNCHANGED <<file, alive, reachable, now, port, pc, spawned, pings, calls, lastEv, caller, env, client>>

\* scanner.Scan() returns false at the end of the output: close(portChan)
ScanEnds ==
    /\ stream.scan = "running" /\ stream.out = <<>> /\ stream.eof
    /\ stream' = [stream EXCEPT !.ch = "closed", !.scan = "done"]
    /\ UNCHANGED <<file, alive, reachable, now, port, pc, spawned, pings, calls, lastEv, caller, env, client>>

SelectPort ==
    /\ pc[1] = "selecting" /\ stream.ch # "empty"
    /\ LET r == SelectPortOf(stream, spawned[1]) IN
        lastEv' = Ev("Spawn", 1, r.err, FALSE, r.pid, r.port, 0, 0, <<>>)
    /\ pc' = [pc EXCEPT ![1] = "idle"]
    /\ UNCHANGED <<file, alive, reachable, now, port, spawned, pings, calls, caller, stream, env, client>>

\* `case <-time.After(startTimeout)`: cmd.Process.Kill() and the timeout error
SelectTimeout ==
    /\ pc[1] = "selecting"
    /\ alive' = alive \ {spawned[1]}
    /\ stream' = [stream EXCEPT !.eof = TRUE]
    /\ lastEv' = Ev("Spawn", 1, ErrStartTimeout, FALSE, 0, 0, 0, 0,
                    <<Call("SIGKILL", spawned[1], ErrNil)>>)
    /\ pc' = [pc EXCEPT ![1] = "idle"]
    /\ UNCHANGED <<file, reachable, now, port, spawned, pings, calls, caller, env, client>>

InitSpawn ==
    /\ file = Absent
    /\ alive \in SUBSET Pids
    /\ reachable = {}
    /\ now = 0
    /\ port = [m \in Mgrs |-> DefaultPort]
    /\ pc = [m \in Mgrs |-> "idle"]
    /\ spawned = [m \in Mgrs |-> 0]
    /\ pings = [m \in Mgrs |-> 0]
    /\ calls = [m \in Mgrs |-> <<>>]
    /\ lastEv = NoEv
    /\ caller = NoCaller
    /\ stream = NoStream
    /\ env = NoEnv
    /\ client = NoClient

NextSpawn ==
    \/ SpawnCall
    \/ WorkerWrites
    \/ WorkerCloses
    \/ WorkerExits
    \/ ScanLine
    \/ ScanEnds
    \/ SelectPort
    \/ SelectTimeout

SpecSpawn == InitSpawn /\ [][NextSpawn]_vars

TypeOK ==
    /\ file \in {Absent, Malformed} \cup DaemonConfig
    /\ alive \subseteq Pids
    /\ reachable \subseteq Ports
    /\ now \in Times
    /\ \A m \in Mgrs : pc[m] \in {"idle", "waiting", "writing", "killing", "selecting"} /\ spawned[m] \in 0..MaxPid

\* ================================================================ claims
\* the calls of the operation that just returned
Made == lastEv.calls
CallsTo(fn) == {i \in DOMAIN Made : Made[i].fn = fn}
ReadOp == lastEv.op \in {"Status", "IsRunning"}
\* what the read operation reported as "running"
Reported == lastEv.running

\* C1: Status reports running=true only when, in that call, the record was
\* loaded, ProcessManager.IsRunning(record.PID) was true and
\* Ping(localhost, record.Port) succeeded; with a loadable or absent record
\* every other case is running=false with a nil error.
C1_StatusTrustsOnlyLiveAndHealthy ==
    lastEv.op = "Status" =>
        /\ Reported =>
            /\ lastEv.err = ErrNil
            /\ IsRec(file) /\ file.pid \in alive /\ file.port \in reachable
            /\ Made = <<Call("Load", 0, ErrNil),
                        Call("IsRunning", file.pid, "true"),
                        Call("Ping", file.port, ErrNil)>>
            /\ lastEv.pid = file.pid /\ lastEv.port = file.port
        /\ Made[1].res # ErrDecode => lastEv.err = ErrNil
        /\ (Len(Made) < 3 \/ Made[2].res # "true" \/ Made[3].res # ErrNil) => ~Reported

C1_Witness ==
    /\ lastEv.op = "Status"
    /\ Reported
    /\ IsRec(file)

\* the read operation found the recorded process dead
FoundDead ==
    /\ ReadOp
    /\ Len(Made) >= 2
    /\ Made[2].fn = "IsRunning" /\ Made[2].res = "false"

\* C3 as stated: a record whose process is not alive makes Status and
\* IsRunning report not-running and the record is gone afterwards (Load
\* returns not-found).
C3_DeadProcessRecordGone ==
    FoundDead => ~Reported /\ Load(file).err = ErrConfigNotFound

\* C3 as amended: a record whose process is not alive makes Status and
\* IsRunning report not-running and call Delete; the record is gone
\* afterwards unless that Delete failed, and then it is left as it was.
C3_DeadProcessRecordDeleted ==
    FoundDead =>
        /\ ~Reported /\ lastEv.err = ErrNil
        /\ Made[2].arg \notin alive
        /\ Len(Made) = 3 /\ Made[3].fn = "Delete"
        /\ Made[3].res = ErrNil => Load(file).err = ErrConfigNotFound
        /\ Made[3].res # ErrNil => IsRec(file) /\ file.pid = Made[2].arg

C3_Witness ==
    /\ FoundDead
    /\ lastEv.op = "IsRunning"
    /\ Made[3].res = ErrNil
    /\ file = Absent

\* the read operation found the recorded process alive and the ping failing
FoundUnhealthy ==
    /\ ReadOp
    /\ Len(Made) >= 3
    /\ Made[2].fn = "IsRunning" /\ Made[2].res = "true"
    /\ Made[3].fn = "Ping" /\ Made[3].res # ErrNil

\* C4 as stated: a recorded process that is alive but fails the health probe
\* makes Status and IsRunning report not-running and the record is deleted.
C4_UnhealthyRecordGone ==
    FoundUnhealthy => ~Reported /\ Load(file).err = ErrConfigNotFound

\* C4 as amended: a recorded process that is alive but fails the health
\* probe makes Status and IsRunning report not-running and call Delete, as
\* for a dead process; the record is gone afterwards unless that Delete
\* failed.
C4_UnhealthyRecordDeleted ==
    FoundUnhealthy =>
        /\ ~Reported /\ lastEv.err = ErrNil
        /\ Made[2].arg \in alive /\ Made[3].arg \notin reachable
        /\ Len(Made) = 4 /\ Made[4].fn = "Delete"
        /\ Made[4].res = ErrNil => Load(file).err = ErrConfigNotFound
        /\ Made[4].res # ErrNil => IsRec(file) /\ file.pid = Made[2].arg

C4_Witness ==
    /\ FoundUnhealthy
    /\ lastEv.op = "Status"
    /\ Made[4].res = ErrNil
    /\ file = Absent

\* the record is present, its process alive and its port answering
HealthyRunning ==
    /\ IsRec(file)
    /\ file.pid \in alive
    /\ file.port \in reachable

\* the step is manager m entering Start
StartCalled(m) ==
    /\ Idle(m)
    /\ lastEv'.m = m
    /\ lastEv'.op \in {"Start", "StartWait"}

\* C5: Start called while the daemon is healthy-running returns
\* AlreadyRunning, makes no StartProcess call and leaves the record (and the
\* processes) as they were.
C5_StartWhileRunning ==
    [][\A m \in Mgrs :
        (StartCalled(m) /\ HealthyRunning) =>
            /\ lastEv'.op = "Start"
            /\ lastEv'.err = ErrDaemonAlreadyRunning
            /\ \A i \in DOMAIN lastEv'.calls :
                   lastEv'.calls[i].fn \notin {"StartProcess", "Delete", "Save", "Kill"}
            /\ file' = file
            /\ alive' = alive
            /\ pc'[m] = "idle"]_vars

C5_Witness ==
    /\ lastEv.op = "Start"
    /\ lastEv.err = ErrDaemonAlreadyRunning
    /\ HealthyRunning

\* Start returned an error of the kinds that roll the spawn back
StartFailed ==
    /\ lastEv.op = "Start"
    /\ lastEv.err \in {ErrCLINotFound, ErrStartTimeout, ErrSave}

\* the pids this Start got from StartProcess
SpawnedPids == {Made[i].arg : i \in {j \in CallsTo("StartProcess") : Made[j].res = ErrNil}}

\* C6 as stated: when Start returns an error (locator failure, health
\* timeout, persistence failure) no process it spawned is alive without a
\* record that refers to it.
C6_NoLiveUnregisteredWorker ==
    StartFailed =>
        \A p \in SpawnedPids : p \notin alive \/ (IsRec(file) /\ file.pid = p)

\* C6 as amended: when Start returns such an error it has called Kill on the
\* process it spawned, as its last call; if that Kill succeeded the process
\* is no longer alive (a failed Kill is ignored and leaves the worker).
C6_FailedStartKillsSpawned ==
    StartFailed =>
        /\ lastEv.err = ErrCLINotFound => SpawnedPids = {}
        /\ \A p \in SpawnedPids :
            /\ Made[Len(Made)].fn = "Kill" /\ Made[Len(Made)].arg = p
            /\ Made[Len(Made)].res = ErrNil => p \notin alive

C6_Witness ==
    /\ StartFailed
    /\ SpawnedPids # {}
    /\ Made[Len(Made)].fn = "Kill" /\ Made[Len(Made)].res = ErrNil
    /\ SpawnedPids \cap alive = {}

\* Start returned the start-timeout error
TimedOut ==
    /\ lastEv.op = "Start"
    /\ lastEv.err = ErrStartTimeout

\* the calls Start made once the worker was spawned
AfterSpawn == {i \in DOMAIN Made : \E j \in CallsTo("StartProcess") : j < i}

\* Start killed exactly the pid it spawned, and saved nothing
KilledOwnSavedNothing ==
    /\ Cardinality(SpawnedPids) = 1
    /\ Cardinality(CallsTo("Kill")) = 1
    /\ \A i \in CallsTo("Kill") : Made[i].arg \in SpawnedPids /\ Made[i].arg = lastEv.pid
    /\ CallsTo("Save") = {}

\* C7 as stated: when the start-timeout elapses before a probe succeeds,
\* Start kills exactly the pid it spawned, returns StartTimeout and never
\* calls Save; no record exists afterwards.
C7_TimeoutLeavesNoRecord ==
    TimedOut => KilledOwnSavedNothing /\ ~IsRec(file)

\* C7 as amended: when the start-timeout elapses before a probe succeeds,
\* Start kills exactly the pid it spawned, returns StartTimeout and never
\* calls Save; a record exists afterwards only if it is a leftover that the
\* Delete at the beginning of this Start failed to remove.
C7_TimeoutKillsAndSavesNothing ==
    /\ TimedOut =>
        /\ KilledOwnSavedNothing
        /\ \A i \in AfterSpawn : Made[i].fn = "Ping" => Made[i].res # ErrNil
        /\ IsRec(file) => \E i \in CallsTo("Delete") : Made[i].res # ErrNil
    /\ (lastEv.op = "Start" /\ CallsTo("Save") = {} /\ CallsTo("Kill") # {})
           => lastEv.err = ErrStartTimeout

C7_Witness ==
    /\ TimedOut
    /\ \E i \in AfterSpawn : Made[i].fn = "Ping"
    /\ file = Absent

\* Start called Save and Save failed
SaveFailed == lastEv.op = "Start" /\ \E i \in CallsTo("Save") : Made[i].res # ErrNil

\* C8: if the worker became healthy but Save fails, Start calls Kill on the
\* spawned pid and returns the persistence error; it does not report success.
C8_SaveFailureKillsAndFails ==
    /\ SaveFailed =>
        /\ lastEv.err = ErrSave
        /\ LET n == Len(Made) IN
            /\ Made[n].fn = "Kill" /\ Made[n].arg = lastEv.pid
            /\ Made[n].arg \in SpawnedPids
            /\ Made[n - 1].fn = "Save"
            /\ Made[n - 2] = Call("Ping", lastEv.port, ErrNil)
    /\ (lastEv.op = "Start" /\ lastEv.err = ErrNil) =>
           \E i \in CallsTo("Save") : Made[i].res = ErrNil

C8_Witness ==
    /\ SaveFailed
    /\ lastEv.err = ErrSave

\* the locator failed in the Start that just returned
LocatorFailed == lastEv.op = "Start" /\ \E i \in CallsTo("FindCLI") : Made[i].res # ErrNil

\* C9: if the locator cannot find the executable, Start returns CLINotFound
\* and never calls StartProcess, Kill or Save.
C9_NoCLINoSpawn ==
    /\ LocatorFailed =>
        /\ lastEv.err = ErrCLINotFound
        /\ CallsTo("StartProcess") = {} /\ CallsTo("Kill") = {} /\ CallsTo("Save") = {}
        /\ Made[Len(Made)].fn = "FindCLI"
        /\ pc[lastEv.m] = "idle"
    /\ (lastEv.op = "Start" /\ lastEv.err = ErrCLINotFound) => LocatorFailed

C9_Witness ==
    /\ LocatorFailed
    /\ lastEv.err = ErrCLINotFound

\* Start just returned nil
StartOk == lastEv.op = "Start" /\ lastEv.err = ErrNil

\* C2: after a successful Start, the IsRunning that follows returns true and
\* the GetPort that follows returns the port the worker was started on, with
\* a nil error.
C2_StartThenRunning ==
    [][(StartOk /\ lastEv'.m = lastEv.m) =>
        /\ lastEv'.op = "IsRunning" => lastEv'.running
        /\ lastEv'.op = "GetPort" => lastEv'.err = ErrNil /\ lastEv'.port = lastEv.port]_vars

\* C10: a successful Start has persisted one record with the pid returned by
\* StartProcess and the manager's port; the Status that follows returns
\* running=true with that pid and port.
C10_StartPersistsThenStatus ==
    [][/\ StartOk' =>
            /\ IsRec(file')
            /\ {file'.pid} = {lastEv'.calls[i].arg : i \in
                   {j \in DOMAIN lastEv'.calls : lastEv'.calls[j].fn = "StartProcess"}}
            /\ file'.port = port[lastEv'.m]
       /\ (StartOk /\ lastEv'.m = lastEv.m /\ lastEv'.op = "Status") =>
            /\ lastEv'.running
            /\ lastEv'.pid = lastEv.pid
            /\ lastEv'.port = port[lastEv.m]]_vars

\* ---------------------------------------------------------------- Stop
\* A step that is a call of Stop by some manager (inside [][...]_vars).
StopCalled == lastEv'.op = "Stop"
StopOnLive == StopCalled /\ IsRec(file) /\ file.pid \in alive
Made2 == lastEv'.calls
CallsTo2(fn) == {i \in DOMAIN Made2 : Made2[i].fn = fn}

\* C11 as stated: Stop with a record whose process is alive calls Kill with
\* the recorded pid, then deletes the record, and returns nil.
C11_StopKillsDeletesReturnsNil ==
    [][StopOnLive =>
        /\ \E i \in CallsTo2("Kill"), j \in CallsTo2("Delete") :
              i < j /\ Made2[i].arg = file.pid
        /\ ~IsRec(file')
        /\ lastEv'.err = ErrNil]_vars

\* C11 as amended: Stop with a record whose process is alive calls Kill
\* once, with the recorded pid, before any Delete; Delete is called only
\* after Kill returned nil, and then exactly once; Stop returns nil exactly
\* when Kill and Delete both returned nil, and then the record is gone.
C11_StopKillsThenDeletes ==
    [][StopOnLive =>
        /\ Len(Made2) >= 3
        /\ Made2[3].fn = "Kill" /\ Made2[3].arg = file.pid
        /\ CallsTo2("Kill") = {3}
        /\ CallsTo2("Delete") = IF Made2[3].res = ErrNil THEN {4} ELSE {}
        /\ (lastEv'.err = ErrNil) <=>
             (Made2[3].res = ErrNil /\ Made2[4].res = ErrNil)
        /\ (lastEv'.err = ErrNil) => ~IsRec(file')
        /\ IsRec(file') => file' = file]_vars

C11_Witness ==
    /\ lastEv.op = "Stop" /\ lastEv.err = ErrNil
    /\ Len(Made) = 4
    /\ Made[2].res = "true" /\ Made[3] = Call("Kill", Made[2].arg, ErrNil)
    /\ Made[4] = Call("Delete", 0, ErrNil)
    /\ ~IsRec(file)

KillFailedInStop == StopCalled /\ \E i \in CallsTo2("Kill") : Made2[i].res # ErrNil

\* The first half of C12 alone: a failed Kill makes Stop fail and leaves the
\* record as it was, without a call of Delete.
StopKillFailureKeepsRecord ==
    KillFailedInStop =>
        /\ lastEv'.err = ErrKill
        /\ CallsTo2("Delete") = {}
        /\ file' = file

\* The second half of C12 alone: a record that Stop removed names a process
\* that is no longer running.
StopDeletesOnlyForGoneWorker ==
    (StopCalled /\ IsRec(file) /\ ~IsRec(file')) => file.pid \notin alive'

C12_KillFailureHalf == [][StopKillFailureKeepsRecord]_vars

\* C12: if Kill fails during Stop, Stop returns an error and the record is
\* left intact (Delete is not called); Stop never deletes the record of a
\* worker that might still be running.
C12_StopKeepsRecordOfLiveWorker ==
    [][StopKillFailureKeepsRecord /\ StopDeletesOnlyForGoneWorker]_vars

StopOnDead == StopCalled /\ IsRec(file) /\ file.pid \notin alive

\* C13 as stated: Stop with a record whose process is not alive deletes the
\* record and returns NotRunning without calling Kill.
C13_StopOnDeadRecordGone ==
    [][StopOnDead =>
        /\ ~IsRec(file')
        /\ lastEv'.err = ErrDaemonNotRunning
        /\ CallsTo2("Kill") = {}]_vars

\* C13 as amended: Stop with a record whose process is not alive calls
\* Delete once, returns NotRunning whatever Delete returned, and never calls
\* Kill; the record is gone unless that Delete failed.
C13_StopOnDeadDeletes ==
    [][StopOnDead =>
        /\ Len(Made2) = 3
        /\ Made2[1] = Call("Load", 0, ErrNil)
        /\ Made2[2] = Call("IsRunning", file.pid, "false")
        /\ Made2[3].fn = "Delete"
        /\ lastEv'.err = ErrDaemonNotRunning
        /\ alive' = alive
        /\ file' = IF Made2[3].res = ErrNil THEN Absent ELSE file]_vars

C13_Witness ==
    /\ lastEv.op = "Stop" /\ lastEv.err = ErrDaemonNotRunning
    /\ Len(Made) = 3
    /\ Made[2].fn = "IsRunning" /\ Made[2].res = "false"
    /\ Made[3] = Call("Delete", 0, ErrNil)
    /\ ~IsRec(file)

\* the operation that returned just before this one was a Stop
SecondStop == lastEv.op = "Stop" /\ lastEv.after.op = "Stop"

\* C14 as stated: from any starting state, the second of two Stop calls in
\* a row returns NotRunning.
C14_SecondStopNotRunning ==
    SecondStop => lastEv.err = ErrDaemonNotRunning

\* C14 as amended: when a Stop returned nil or NotRunning, a Stop called
\* right after it returns NotRunning and signals no process.
C14_StopAfterStopNotRunning ==
    (SecondStop /\ lastEv.after.err \in {ErrNil, ErrDaemonNotRunning}) =>
        /\ lastEv.err = ErrDaemonNotRunning
        /\ CallsTo("Kill") = {}

C14_Witness ==
    /\ SecondStop
    /\ lastEv.after.err = ErrNil
    /\ lastEv.err = ErrDaemonNotRunning
    /\ Made = <<Call("Load", 0, ErrConfigNotFound)>>

\* ------------------------------------------------------- no record present
\* A step that is a call of one of the four operations with no record file.
CalledWithoutRecord ==
    /\ file = Absent
    /\ lastEv'.op \in {"IsRunning", "GetPort", "Status", "Stop"}

\* C15: with no record present IsRunning() is false, GetPort() fails with
\* NotRunning, Status() is running=false with a nil error and Stop() returns
\* NotRunning; the only collaborator call any of them makes is Load, so
\* nothing is spawned, signalled, saved or deleted.
C15_NoRecordNothingTouched ==
    [][CalledWithoutRecord =>
        /\ lastEv'.op = "IsRunning" => lastEv'.running = FALSE
        /\ lastEv'.op = "GetPort" => lastEv'.err = ErrDaemonNotRunning
        /\ lastEv'.op = "Status" => lastEv'.running = FALSE /\ lastEv'.err = ErrNil
        /\ lastEv'.op = "Stop" => lastEv'.err = ErrDaemonNotRunning
        /\ CallsTo2("StartProcess") = {} /\ CallsTo2("Kill") = {}
        /\ CallsTo2("Save") = {} /\ CallsTo2("Delete") = {}
        /\ Made2 = <<Call("Load", 0, ErrConfigNotFound)>>
        /\ file' = Absent /\ alive' = alive]_vars

C15_Witness ==
    /\ file = Absent
    /\ lastEv.op = "Stop" /\ lastEv.err = ErrDaemonNotRunning
    /\ lastEv.after = Prior("GetPort", ErrDaemonNotRunning)
    /\ Made = <<Call("Load", 0, ErrConfigNotFound)>>

\* ------------------------------------------- GetPort, IsRunning and Status
\* What the three operations return when called from the same state: Status
\* reports running exactly from HealthyRunning, with the record's port.
StatusAgrees ==
    lastEv'.op = "Status" =>
        /\ lastEv'.running = HealthyRunning
        /\ HealthyRunning => lastEv'.port = file.port /\ lastEv'.err = ErrNil
IsRunningAgrees == lastEv'.op = "IsRunning" => lastEv'.running = HealthyRunning
GetPortWhenRunning ==
    (lastEv'.op = "GetPort" /\ HealthyRunning) =>
        lastEv'.port = file.port /\ lastEv'.err = ErrNil

\* C16 as stated: GetPort returns Status().port when Status reports running
\* and otherwise fails with NotRunning; IsRunning equals Status().running.
C16_GetPortElseNotRunning ==
    [][/\ StatusAgrees /\ IsRunningAgrees /\ GetPortWhenRunning
       /\ (lastEv'.op = "GetPort" /\ ~HealthyRunning) =>
              lastEv'.err = ErrDaemonNotRunning]_vars

\* C16 as amended: GetPort returns Status().port when Status reports
\* running; when Status reports not-running it fails with NotRunning, and
\* when Status itself fails (the record cannot be decoded) it fails with
\* that error; IsRunning equals Status().running, false when Status fails.
C16_GetPortFollowsStatus ==
    [][/\ StatusAgrees /\ IsRunningAgrees /\ GetPortWhenRunning
       /\ (lastEv'.op = "GetPort" /\ ~HealthyRunning) =>
              /\ lastEv'.port = 0
              /\ lastEv'.err = IF file = Malformed THEN ErrDecode
                                ELSE ErrDaemonNotRunning
       /\ (lastEv'.op = "Status" /\ ~HealthyRunning) =>
              lastEv'.err = IF file = Malformed THEN ErrDecode ELSE ErrNil]_vars

C16_Witness ==
    /\ lastEv.op = "GetPort" /\ lastEv.err = ErrNil
    /\ lastEv.port = DefaultPort + 1
    /\ lastEv.after = Prior("Status", ErrNil)
    /\ HealthyRunning /\ file.port = lastEv.port

\* ------------------------------------------------------- malformed record
\* Status, GetPort and Stop fail on a malformed file.
MalformedIsError ==
    (file = Malformed /\ lastEv'.op \in {"Status", "GetPort", "Stop"}) =>
        lastEv'.err # ErrNil
\* Status, IsRunning, GetPort and Stop leave a malformed file as it is.
MalformedKeptByReaders ==
    (file = Malformed /\ lastEv'.op \in {"Status", "IsRunning", "GetPort", "Stop"}) =>
        file' = Malformed /\ CallsTo2("Delete") = {} /\ CallsTo2("Save") = {}
\* Start leaves a malformed file as it is.
MalformedKeptByStart ==
    (file = Malformed /\ lastEv'.op \in {"Start", "StartWait"}) => file' = Malformed

C17_ReadersHalf == [][MalformedIsError /\ MalformedKeptByReaders]_vars

\* C17: while the record file is malformed, Status, GetPort and Stop return
\* an error, and no manager operation (Status, IsRunning, GetPort, Stop,
\* Start) deletes or overwrites the file.
C17_MalformedNeverReset ==
    [][MalformedIsError /\ MalformedKeptByReaders /\ MalformedKeptByStart]_vars

\* ----------------------------------------------------- ConfigNotFound
\* Load reported the record as absent during the operation that returned.
LoadedNothing == \E i \in CallsTo("Load") : Made[i].res = ErrConfigNotFound

\* C18: no call of Start, Stop, Status, IsRunning or GetPort returns
\* ConfigNotFound; when Load found no record, Stop and GetPort return
\* NotRunning and Status returns a not-running status with a nil error.
C18_ConfigNotFoundStaysInside ==
    /\ lastEv.err # ErrConfigNotFound
    /\ LoadedNothing =>
        /\ lastEv.op \in {"Stop", "GetPort"} => lastEv.err = ErrDaemonNotRunning
        /\ lastEv.op = "Status" => lastEv.err = ErrNil /\ lastEv.running = FALSE
        /\ lastEv.op = "IsRunning" => lastEv.running = FALSE

C18_Witness ==
    /\ lastEv.op = "Status" /\ LoadedNothing
    /\ lastEv.err = ErrNil /\ lastEv.running = FALSE
    /\ lastEv.after = Prior("Stop", ErrDaemonNotRunning)

\* ---------------------------------------------------------- ConfigStore
Saved == caller.saved
Loaded == caller.loaded
\* Load was just called after successful Saves, with no Delete and no failed
\* Save after the last of them.
LoadedAfterSave == lastEv.op = "Load" /\ Saved # NoConfig

\* Not claimed, and false: the loaded value is the saved value in every
\* respect (the monotonic clock reading of StartedAt is not written out).
RoundTripIdentical == LoadedAfterSave => Loaded.cfg = Saved

\* C19: after any sequence of successful Saves with no Delete after the
\* last one, Load succeeds and returns a record equal in pid, port and
\* startedAt (as an instant) to the argument of the most recent Save, and
\* the file holds that one record only.
C19_SaveLoadRoundTrip ==
    LoadedAfterSave =>
        /\ Loaded.err = ErrNil
        /\ Loaded.cfg.pid = Saved.pid
        /\ Loaded.cfg.port = Saved.port
        /\ TimeEqual(Loaded.cfg, Saved)
        /\ file = Marshal(Saved)

C19_Witness ==
    /\ LoadedAfterSave
    /\ lastEv.after = Prior("Save", ErrNil)
    /\ Saved.mono /\ Loaded.cfg # Saved
    /\ Loaded.cfg.pid = Saved.pid /\ Loaded.cfg.port = Saved.port
    /\ TimeEqual(Loaded.cfg, Saved)

\* C20: Load returns NotFound exactly when the file is absent; when the
\* file exists with malformed content it returns a decode error, which is
\* not NotFound, and no record.
C20_LoadNotFoundOrDecodeError ==
    lastEv.op = "Load" =>
        /\ (Loaded.err = ErrConfigNotFound) <=> (file = Absent)
        /\ file = Malformed =>
            /\ Loaded.err = ErrDecode /\ ErrDecode # ErrConfigNotFound
            /\ Loaded.cfg = NoConfig
        /\ Loaded.err # ErrNil <=> Loaded.cfg = NoConfig

C20_Witness ==
    /\ lastEv.op = "Load" /\ file = Malformed
    /\ Loaded.err = ErrDecode /\ Loaded.cfg = NoConfig

\* the operation that returned just before this step was a successful Delete
Deleted == lastEv.op = "Delete" /\ lastEv.err = ErrNil

\* C21: Delete on an absent file returns nil and leaves the file absent;
\* after a successful Delete the file is absent, a Load called next returns
\* NotFound and a Delete called next returns nil.
C21_DeleteIdempotent ==
    [][/\ (lastEv'.op = "Delete" /\ file = Absent) =>
              lastEv'.err = ErrNil /\ file' = Absent
       /\ (lastEv'.op = "Delete" /\ lastEv'.err = ErrNil) => file' = Absent
       /\ (Deleted /\ lastEv'.op = "Load") =>
              lastEv'.err = ErrConfigNotFound /\ caller'.loaded.cfg = NoConfig
       /\ (Deleted /\ lastEv'.op = "Delete") => lastEv'.err = ErrNil]_vars

C21_Witness ==
    /\ Deleted
    /\ lastEv.after = Prior("Delete", ErrNil)
    /\ file = Absent

\* --------------------------------------------------------- Save atomicity
\* a Load by the other invocation returned while a Save was between its
\* truncation and its write
LoadedDuringSave == lastEv.op = "Load" /\ lastEv.m = 2 /\ pc[1] = "writing"

\* C22: a Load that interleaves with a Save observes the previous state of
\* the file (old record or absent) or the complete new record, never an
\* empty or partial file that fails to decode.
C22_SaveIsAtomic ==
    LoadedDuringSave =>
        /\ Loaded.err # ErrDecode
        /\ \/ Loaded = Load(caller.before)
           \/ Loaded = Load(Marshal(caller.writing))

\* ------------------------------------------------------ OSProcessManager
KillReturned == lastEv.op = "Kill"
\* what the graceful signal of the Kill that returned met
TermResult == IF CallsTo("SIGTERM") = {} THEN "none" ELSE Made[1].res

\* the forced signal is only ever sent after the graceful one
ForcedAfterGraceful ==
    \A i \in CallsTo("SIGKILL") : \E j \in CallsTo("SIGTERM") : j < i

\* C23: Kill sends the graceful signal first and the forced signal second,
\* and never returns success for a process that is still running without
\* having attempted the forced signal.
C23_KillEscalates ==
    KillReturned =>
        /\ ForcedAfterGraceful
        /\ (lastEv.err = ErrNil /\ lastEv.pid \in alive) => CallsTo("SIGKILL") # {}

\* The part of C23 that holds: for a child of the caller, Kill returns nil
\* only when the process is gone, and sends SIGKILL only after SIGTERM.
KillOfChildEscalates ==
    (KillReturned /\ lastEv.pid = spawned[1]) =>
        /\ ForcedAfterGraceful
        /\ lastEv.err = ErrNil => lastEv.pid \notin alive

\* C24: Kill(pid > 0) on a process that is gone when the graceful signal is
\* sent returns nil and sends no forced signal; no other failure of the
\* graceful signal is turned into success.
C24_OnlyGoneIsSuccess ==
    (KillReturned /\ lastEv.pid > 0) =>
        /\ TermResult = ErrProcessDone =>
              lastEv.err = ErrNil /\ CallsTo("SIGKILL") = {}
        /\ TermResult \notin {ErrNil, ErrProcessDone} => lastEv.err # ErrNil

\* The first half of C24 alone.
KillOfGoneIsSuccess ==
    (KillReturned /\ lastEv.pid > 0 /\ TermResult = ErrProcessDone) =>
        lastEv.err = ErrNil /\ CallsTo("SIGKILL") = {}

\* C25: for every pid <= 0, IsRunning(pid) returns false and Kill(pid)
\* returns an error, and neither sends any signal.
C25_InvalidPidNoSignal ==
    /\ (lastEv.op = "OSIsRunning" /\ lastEv.pid <= 0) =>
          lastEv.running = FALSE /\ Made = <<>>
    /\ (KillReturned /\ lastEv.pid <= 0) =>
          lastEv.err # ErrNil /\ Made = <<>>

C25_Witness ==
    /\ KillReturned /\ lastEv.pid = -1
    /\ lastEv.err = ErrKill /\ Made = <<>>
    /\ lastEv.after.op = "OSIsRunning"

\* ------------------------------------------------- port-announcing spawn
SpawnReturned == lastEv.op = "Spawn"
\* the lines read so far that match the announcement
Announced == {i \in DOMAIN stream.read : stream.read[i].kind = "announce"}

\* C26: when no line matching the announcement was read, whether the worker
\* is silent, exits or closes its output, the call kills the spawned
\* process and returns the timeout error; a nil error comes only with a
\* port that was announced.
C26_NoAnnouncementIsTimeout ==
    (SpawnReturned /\ spawned[1] # 0) =>
        /\ Announced = {} =>
            /\ lastEv.err = ErrStartTimeout
            /\ spawned[1] \notin alive
            /\ \E i \in CallsTo("SIGKILL") : Made[i].arg = spawned[1]
        /\ lastEv.err = ErrNil =>
            \E i \in Announced : stream.read[i].n = lastEv.port

\* The part of C26 that holds: the timeout branch kills the spawned process
\* and returns the timeout error with no pid and no port.
SpawnTimeoutKills ==
    (SpawnReturned /\ lastEv.err = ErrStartTimeout) =>
        /\ spawned[1] \notin alive
        /\ \E i \in CallsTo("SIGKILL") : Made[i].arg = spawned[1]
        /\ lastEv.pid = 0 /\ lastEv.port = 0

\* the first line read that matches the announcement
FirstAnnounced == CHOOSE i \in Announced : \A j \in Announced : i <= j

\* C27: when a matching line was read, the call returns the number of the
\* first such line and the pid of the spawned process; matching lines after
\* it are never read, and the sink holds every line read up to and including
\* it, in the order of arrival.
C27_FirstAnnouncementWins ==
    (SpawnReturned /\ spawned[1] # 0 /\ Announced # {} /\ lastEv.err = ErrNil) =>
        /\ lastEv.port = stream.read[FirstAnnounced].n
        /\ lastEv.pid = spawned[1]
        /\ Announced = {Len(stream.read)}
        /\ stream.sink = stream.read

\* a return after a log line and an announcement, with another announcement
\* of a different port written after it
C27_Witness ==
    /\ SpawnReturned /\ lastEv.err = ErrNil
    /\ Len(stream.read) = 2 /\ Announced = {2}
    /\ stream.read[1].kind = "log"
    /\ Len(stream.out) = 1
    /\ stream.out[1].kind = "announce" /\ stream.out[1].n # stream.read[2].n
    /\ lastEv.port = stream.read[2].n

\* ------------------------------------------------------------ locator
FindCLIReturned == lastEv.op = "FindCLI"
OverrideUsable == env.override # NoPath /\ env.override \in env.exists
Searched == LookPath("copilot", env.path, env.exists)

\* C28: the locator returns the override path whenever the override is set
\* and that path exists; otherwise the search-path result; the not-found
\* error only when both fail; and never a path together with an error.
C28_OverrideThenSearchPath ==
    FindCLIReturned =>
        /\ OverrideUsable => env.res = [path |-> env.override, err |-> ErrNil]
        /\ (~OverrideUsable /\ Searched.err = ErrNil) => env.res = Searched
        /\ env.res.err # ErrNil <=> (~OverrideUsable /\ Searched.err # ErrNil)
        /\ ~(env.res.path # NoPath /\ env.res.err # ErrNil)

\* the override is set to a path that does not exist and the search path
\* has the binary in its second directory
C28_Witness ==
    /\ FindCLIReturned
    /\ env.override # NoPath /\ env.override \notin env.exists
    /\ Len(env.path) = 2
    /\ env.res = [path |-> [dir |-> env.path[2], name |-> "copilot"], err |-> ErrNil]

\* --------------------------------------------------- concurrent Starts
\* a Start returned nil right after a Start of the other invocation did:
\* both had spawned a worker and were in waitForHealthy together
BothStartsReturned ==
    /\ lastEv.op = "Start" /\ lastEv.err = ErrNil
    /\ lastEv.after = Prior("Start", ErrNil)
FirstWorker == lastEv.prev.pid
SecondWorker == lastEv.pid

\* C29: two invocations of Start can both find the worker not running and
\* both call StartProcess; once both have returned, the record names the
\* worker of the one that saved last, and the other worker, when it is a
\* different process that is still alive, is left running with no record.
C29_ConcurrentStartsLeakWorker ==
    BothStartsReturned =>
        /\ lastEv.prev.m # lastEv.m
        /\ \E i \in DOMAIN lastEv.calls :
               lastEv.calls[i] = Call("StartProcess", SecondWorker, ErrNil)
        /\ IsRec(file) /\ file.pid = SecondWorker
        /\ FirstWorker # SecondWorker => file.pid # FirstWorker

\* both workers are alive, and the record names the second one only
C29_Witness ==
    /\ BothStartsReturned
    /\ FirstWorker \in alive /\ SecondWorker \in alive
    /\ FirstWorker # SecondWorker
    /\ file.pid = SecondWorker
    /\ pc[1] = "idle" /\ pc[2] = "idle"

\* ---------------------------------------------------------- health wait
\* a Start that got as far as waitForHealthy has returned
WaitReturned ==
    /\ lastEv.op = "Start"
    /\ \E i \in CallsTo("StartProcess") : Made[i].res = ErrNil
\* the ticks of that wait on which Ping returned nil
GoodPings == {i \in CallsTo("Ping") : Made[i].res = ErrNil}
WaitEndsOnPingOrDeadline ==
    WaitReturned =>
        /\ lastEv.err = ErrStartTimeout <=> GoodPings = {}
        /\ \A i \in GoodPings : \A j \in CallsTo("Ping") : j <= i
        /\ lastEv.err = ErrNil => GoodPings # {}

\* C30: the health wait ends on a tick whose Ping succeeded or on the
\* deadline, whichever comes first: Start goes on past the wait only after
\* a Ping returned nil, and that Ping was the last one; it returns the
\* start timeout exactly when no Ping succeeded; and a Start that is
\* waiting always returns, even when every Ping fails.
C30_HealthWaitTerminates ==
    /\ []WaitEndsOnPingOrDeadline
    /\ (pc[1] = "waiting") ~> (pc[1] = "idle")

\* the deadline ended a wait in which every Ping had failed
C30_Witness ==
    /\ WaitReturned
    /\ lastEv.err = ErrStartTimeout
    /\ Cardinality(CallsTo("Ping")) >= 2
    /\ GoodPings = {}

\* ------------------------------------------------ Start's leftover record
\* a Start went past its already-running check
StartWentOn ==
    \/ pc[1] = "waiting"
    \/ lastEv.op = "Start" /\ lastEv.err # ErrDaemonAlreadyRunning
\* the calls that Start has made so far
StartLog == IF pc[1] = "waiting" THEN calls[1] ELSE Made
LogTo(fn) == {i \in DOMAIN StartLog : StartLog[i].fn = fn}
\* Start's own Delete: the one right before FindCLI
CleanUps == {i \in LogTo("Delete") : i + 1 \in LogTo("FindCLI")}
NothingSavedYet == LogTo("Save") = {}
\* Delete comes before the locator and the spawn, and the locator is called
\* whatever Delete returned.
DeleteThenLocate ==
    StartWentOn =>
        /\ Cardinality(CleanUps) = 1 /\ Cardinality(LogTo("FindCLI")) = 1
        /\ \A i \in CleanUps : \A j \in LogTo("StartProcess") : i < j

\* C31 as stated: a Start that does not fail with AlreadyRunning calls Delete
\* before FindCLI and StartProcess and goes on whatever Delete returned, and
\* nothing that was in the record file before is there in its later steps.
C31_LeftoverNeverSurvives ==
    /\ DeleteThenLocate
    /\ (StartWentOn /\ NothingSavedYet) => file = Absent

\* C31 as amended: the same, with the file empty in the later steps when
\* that Delete returned nil; when it failed the file is still there.
C31_LeftoverDeletedBestEffort ==
    /\ DeleteThenLocate
    /\ (StartWentOn /\ NothingSavedYet) =>
          \A i \in CleanUps : (StartLog[i].res = ErrNil) <=> (file = Absent)

\* Start's Delete failed and Start went on to spawn a worker
C31_Witness ==
    /\ pc[1] = "waiting"
    /\ \E i \in CleanUps : StartLog[i].res # ErrNil
    /\ LogTo("StartProcess") # {}
    /\ IsRec(file)

\* ------------------------------------------------- StartProcess fails
\* StartProcess returned an error in the Start that is under way or returned
SpawnFailed == \E i \in LogTo("StartProcess") : StartLog[i].res # ErrNil

\* C32: when StartProcess fails, Start returns an error at once: that call
\* is the last one it makes, so there is no Kill, no Ping of the health
\* wait and no Save, and no process was added.
C32_SpawnFailureStops ==
    SpawnFailed =>
        /\ lastEv.op = "Start" /\ pc[lastEv.m] = "idle"
        /\ lastEv.err = ErrSpawn
        /\ StartLog[Len(StartLog)].fn = "StartProcess"
        /\ LogTo("Kill") = {} /\ LogTo("Save") = {}
        /\ \A i \in LogTo("Ping") : \A j \in LogTo("StartProcess") : i < j

\* after a leftover record was probed and removed, the spawn failed
C32_Witness ==
    /\ SpawnFailed
    /\ lastEv.err = ErrSpawn
    /\ LogTo("Ping") # {}
    /\ file = Absent

\* ---------------------------------------------------------------- uptime
\* the step is a call of Status (time passing leaves the last event alone)
StatusCalled == lastEv' # lastEv /\ lastEv'.op = "Status"
\* what Status returns is the record and the time since it was started, or
\* all zero
StatusCopiesRecord ==
    StatusCalled =>
        IF lastEv'.running
        THEN /\ IsRec(file) /\ file' = file
             /\ lastEv'.pid = file.pid /\ lastEv'.port = file.port
             /\ lastEv'.startedAt = file.startedAt
             /\ lastEv'.uptime = now - file.startedAt
        ELSE /\ lastEv'.pid = 0 /\ lastEv'.port = 0
             /\ lastEv'.startedAt = 0 /\ lastEv'.uptime = 0
\* two trusted Status results for the same record, with nothing but time
\* passing in between
UptimeGrows ==
    (StatusCalled /\ lastEv'.running /\ lastEv.op = "Status" /\ lastEv.running) =>
        lastEv'.uptime >= lastEv.uptime

\* C33: on the trusted path Status returns the pid, port and startedAt of
\* the record and uptime = now - startedAt, and the uptime of a later
\* Status on the same record is never smaller; on every not-running path
\* pid, port, startedAt and uptime are zero.
C33_UptimeSinceStartedAt == [][StatusCopiesRecord /\ UptimeGrows]_vars

\* a second trusted Status in a row, at a time later than the record's start
C33_Witness ==
    /\ lastEv.op = "Status" /\ lastEv.running
    /\ lastEv.after = Prior("Status", ErrNil)
    /\ lastEv.prev.pid = lastEv.pid
    /\ lastEv.uptime > 0 /\ lastEv.uptime = now - file.startedAt

\* ------------------------------------------------- who writes the record
\* the step puts a record in the file, or calls Save
RecordWritten == (file' # file /\ IsRec(file')) \/ CallsTo2("Save") # {}
\* the step is a Start whose log has its StartProcess, then a Ping that
\* returned nil, then the Save of the pid StartProcess returned
SavedBySpawningStart ==
    /\ lastEv'.op = "Start"
    /\ \E i \in CallsTo2("StartProcess"), j \in CallsTo2("Ping"), k \in CallsTo2("Save") :
        /\ i < j /\ j < k
        /\ Made2[i].res = ErrNil /\ Made2[j].res = ErrNil
        /\ Made2[k].arg = Made2[i].arg
        /\ Made2[k].res = ErrNil =>
              /\ IsRec(file') /\ file'.pid = Made2[i].arg
              /\ file'.port = Made2[j].arg
        /\ \A l \in CallsTo2("Save") : l = k
ReadersAndStopWriteNothing ==
    lastEv'.op \in {"Status", "IsRunning", "GetPort", "Stop"} =>
        /\ file' = file \/ file' = Absent
        /\ CallsTo2("Save") = {}

\* C34: a record is written only by Start, and only after a Ping returned
\* nil following that Start's own StartProcess: the record then holds the
\* pid that StartProcess returned and the port that answered.  Status,
\* IsRunning, GetPort and Stop never create or change a record.
C34_OnlyHealthyStartWrites ==
    [][(RecordWritten => SavedBySpawningStart) /\ ReadersAndStopWriteNothing]_vars

\* a Start has just saved the record of the worker it spawned
C34_Witness ==
    /\ lastEv.op = "Start" /\ lastEv.err = ErrNil
    /\ IsRec(file) /\ file.pid = lastEv.pid /\ file.port = lastEv.port
    /\ \E i \in CallsTo("StartProcess"), k \in CallsTo("Save") :
         i < k /\ Made[i].arg = file.pid /\ Made[k].res = ErrNil

\* ------------------------------------------------------ read operations
ReaderCalled == lastEv' # lastEv /\ lastEv'.op \in {"Status", "IsRunning", "GetPort"}
\* the record in the file names a live process whose port answers
Trusted == HealthyRunning
ReadersTouchNoProcess ==
    ReaderCalled =>
        /\ alive' = alive
        /\ CallsTo2("StartProcess") = {} /\ CallsTo2("Kill") = {}
        /\ CallsTo2("Save") = {}
ReadersKeepTrustedRecord ==
    ReaderCalled =>
        /\ Trusted => (file' = file /\ CallsTo2("Delete") = {})
        /\ CallsTo2("Delete") # {} => (IsRec(file) /\ ~Trusted)
        /\ file' # file => (IsRec(file) /\ ~Trusted /\ file' = Absent)

\* C35: Status, IsRunning and GetPort never call StartProcess, Kill or Save
\* and change no process; they leave a trusted record as it is and call
\* Delete only on a record that is stale.
C35_ReadersAreReadOnly ==
    [][ReadersTouchNoProcess /\ ReadersKeepTrustedRecord]_vars

\* GetPort has just answered from a trusted record, which is still there
C35_Witness ==
    /\ lastEv.op = "GetPort" /\ lastEv.err = ErrNil
    /\ Trusted /\ lastEv.port = file.port
    /\ Made = <<Call("Load", 0, ErrNil), Call("IsRunning", file.pid, "true"),
                Call("Ping", file.port, ErrNil)>>

\* ------------------------------------------------------- what is killed
ManagerStep == lastEv' # lastEv /\ lastEv'.op # "env"
KillTargets == {Made2[i].arg : i \in CallsTo2("Kill")}
\* Stop kills the pid of the record it loaded
StopKillsRecorded ==
    lastEv'.op = "Stop" =>
        \A i \in CallsTo2("Kill") :
            /\ IsRec(file) /\ Made2[i].arg = file.pid
            /\ \E j \in CallsTo2("Load") : j < i /\ Made2[j].res = ErrNil
\* Start kills the pid its own StartProcess returned
StartKillsSpawned ==
    lastEv'.op \in {"Start", "StartWait"} =>
        \A i \in CallsTo2("Kill") :
            \E j \in CallsTo2("StartProcess") :
                j < i /\ Made2[j].res = ErrNil /\ Made2[j].arg = Made2[i].arg
NothingElseKilled ==
    ManagerStep =>
        /\ lastEv'.op \notin {"Stop", "Start"} => CallsTo2("Kill") = {}
        /\ alive \ alive' \subseteq KillTargets

\* C36: every Kill made by Stop has the pid of the record loaded in that
\* call, every Kill made by Start has the pid returned by that call's
\* StartProcess, no other operation calls Kill, and no operation ends a
\* process other than the one it called Kill on.
C36_KillsOnlyOwnTarget ==
    [][StopKillsRecorded /\ StartKillsSpawned /\ NothingElseKilled]_vars

\* Stop has killed the recorded worker while another process stays alive
C36_Witness ==
    /\ lastEv.op = "Stop" /\ lastEv.err = ErrNil
    /\ \E i \in CallsTo("Kill") : Made[i].res = ErrNil /\ Made[i].arg \notin alive
    /\ alive # {}

\* ------------------------------------------------------------ load error
\* the step calls Stop, Status or IsRunning on a file that Load cannot
\* decode
LoadFails ==
    /\ lastEv' # lastEv /\ lastEv'.op \in {"Stop", "Status", "IsRunning"}
    /\ Load(file).err \notin {ErrNil, ErrConfigNotFound}

\* C37: when Load fails with an error other than not-found, Stop and Status
\* return an error that is not NotRunning, IsRunning returns false, and
\* Load is the only call made: no Kill, no Delete, the file and the
\* processes as they were.
C37_LoadErrorTouchesNothing ==
    [][LoadFails =>
        /\ lastEv'.op \in {"Stop", "Status"} =>
              lastEv'.err \notin {ErrNil, ErrDaemonNotRunning, ErrConfigNotFound}
        /\ lastEv'.running = FALSE
        /\ Made2 = <<Call("Load", 0, Load(file).err)>>
        /\ file' = file /\ alive' = alive]_vars

\* Stop has just failed on a file that does not decode, with a process alive
C37_Witness ==
    /\ lastEv.op = "Stop" /\ lastEv.err = ErrDecode
    /\ file = Malformed /\ alive # {}
    /\ Made = <<Call("Load", 0, ErrDecode)>>

\* ------------------------------------------- Stop on an unhealthy worker
\* the step is a Stop on a record whose process is alive and whose port
\* does not answer
StopOnUnhealthy == StopOnLive /\ lastEv' # lastEv /\ file.port \notin reachable
StopNeverPings == StopCalled => CallsTo2("Ping") = {}

\* C38 as stated: Stop never calls the health checker, and a recorded
\* worker that is alive but unhealthy is killed and its record deleted by
\* Stop, which returns nil and not NotRunning.
C38_StopKillsUnhealthyReturnsNil ==
    [][/\ StopNeverPings
       /\ StopOnUnhealthy =>
            /\ \E i \in CallsTo2("Kill") : Made2[i].arg = file.pid
            /\ file.pid \notin alive'
            /\ ~IsRec(file')
            /\ lastEv'.err = ErrNil]_vars

\* C38 as amended: Stop never calls the health checker; on a recorded
\* worker that is alive but unhealthy it calls Kill with the recorded pid,
\* as it does on a healthy one, and never returns NotRunning; it returns
\* nil, with the record gone, when Kill and then Delete returned nil, and
\* the kill or delete error otherwise.
C38_StopIgnoresHealth ==
    [][/\ StopNeverPings
       /\ StopOnUnhealthy =>
            /\ \E i \in CallsTo2("Kill") : Made2[i].arg = file.pid
            /\ lastEv'.err \in {ErrNil, ErrKill, ErrDelete}
            /\ (lastEv'.err = ErrNil) <=>
                  /\ \A i \in CallsTo2("Kill") : Made2[i].res = ErrNil
                  /\ \E j \in CallsTo2("Delete") : Made2[j].res = ErrNil
            /\ (lastEv'.err = ErrNil) => ~IsRec(file')]_vars

\* Stop has just killed a worker whose port nothing answers on
C38_Witness ==
    /\ lastEv.op = "Stop" /\ lastEv.err = ErrNil
    /\ reachable = {}
    /\ Len(Made) = 4
    /\ Made[2].fn = "IsRunning" /\ Made[2].res = "true"
    /\ Made[3] = Call("Kill", Made[2].arg, ErrNil)
    /\ Made[2].arg \notin alive
    /\ file = Absent

\* ------------------------------------------------------------- NewClient
NewClientReturned == lastEv.op = "NewClient"
Built == client.res
\* IsRunning returned true and GetPort returned no error
DaemonOffered ==
    /\ Built.asked = <<"IsRunning", "GetPort">>
    /\ client.running /\ client.gp.err = ErrNil
\* an SDK client for the daemon's port was started
TriedDaemon == Len(Built.started) >= 1 /\ Built.started[1] # Embedded

\* C39: an SDK client is pointed at the daemon only when IsRunning returned
\* true and GetPort returned no error, and then at the port GetPort gave;
\* IsUsingDaemon is true only if that client also started; when it did not
\* start, an embedded server is started instead and IsUsingDaemon is false;
\* construction fails only when the embedded server fails to start.
C39_DaemonThenEmbedded ==
    NewClientReturned =>
        /\ TriedDaemon <=> DaemonOffered
        /\ TriedDaemon => Built.started[1] = client.gp.port
        /\ Built.usingDaemon <=>
              (DaemonOffered /\ SdkStart(client.gp.port, client) = ErrNil /\ Built.err = ErrNil)
        /\ Built.usingDaemon => Built.url = client.gp.port /\ Len(Built.started) = 1
        /\ (TriedDaemon /\ SdkStart(client.gp.port, client) # ErrNil) =>
              /\ Built.started = <<client.gp.port, Embedded>>
              /\ ~Built.usingDaemon
        /\ Built.err # ErrNil <=>
              /\ Built.started[Len(Built.started)] = Embedded
              /\ SdkStart(Embedded, client) # ErrNil
        /\ (Built.err = ErrNil /\ ~Built.usingDaemon) => Built.url = Embedded

\* the daemon was offered but its port refused the SDK client, and the
\* embedded server took over
C39_Witness ==
    /\ NewClientReturned /\ DaemonOffered
    /\ Built.err = ErrNil /\ ~Built.usingDaemon
    /\ Built.started = <<client.gp.port, Embedded>>
====
